---------------------------- MODULE Spec2Model ----------------------------
(***************************************************************************)
(* A state-machine model of the yagbe Game Boy emulator core: the engine   *)
(* (GameBoy), the memory bus, the I/O register file, the CPU's tick        *)
(* (DMA step, interrupt dispatch, HALT, instruction execution, timers),    *)
(* the PPU's dot-driven tick and the APU's tick.                           *)
(*                                                                         *)
(* The whole machine is a record s = [cpu, io, bus, ppu, apu, loaded,      *)
(* failed];                                                                *)
(* every operation of the source is an operator from machine to machine,   *)
(* so that an operation which calls others (GameBoy::tick calls Cpu, Ppu   *)
(* and Apu) is the composition of their operators.  failed = TRUE models   *)
(* a Rust panic (panic!, unreachable!, unimplemented!, index out of        *)
(* bounds): the process has aborted and nothing runs after it.             *)
(*                                                                         *)
(* Memories (WRAM, HRAM, VRAM, OAM, cartridge RAM, the screen) are zero-   *)
(* initialised arrays in the source; they are kept as finite maps holding  *)
(* exactly the non-zero bytes, which represents the full array exactly.    *)
(***************************************************************************)
EXTENDS Integers, Sequences, FiniteSets, TLC

VARIABLES
    cpu,    \* Cpu: registers, interrupts_master_enable, halted
    io,     \* IoRegisters
    bus,    \* Bus: cartridge image and banking state, wram, hram
    ppu,    \* Ppu: dot counter, vram/oam, sprites, pixel fetcher, screen
    apu,    \* Apu
    gb,     \* GameBoy: loaded, and failed (the process panicked)
    cart,   \* Cartridge (gameboy/cartridge.rs), an object of its own
    obs     \* observation of the last operation (what it returned, what it called)

vars == <<cpu, io, bus, ppu, apu, gb, cart, obs>>

-----------------------------------------------------------------------------
(* Fixed-width integer helpers.                                            *)

Byte == 0..255

Pow2(k) == 2^k

\* bit k of x, as 0 or 1
Bit(x, k) == (x \div Pow2(k)) % 2

\* bit k of x is set
Test(x, k) == Bit(x, k) = 1

\* x & y on 8 bits
And8(x, y) ==
    Bit(x,0)*Bit(y,0) + 2*Bit(x,1)*Bit(y,1) + 4*Bit(x,2)*Bit(y,2)
  + 8*Bit(x,3)*Bit(y,3) + 16*Bit(x,4)*Bit(y,4) + 32*Bit(x,5)*Bit(y,5)
  + 64*Bit(x,6)*Bit(y,6) + 128*Bit(x,7)*Bit(y,7)

\* x | y on 8 bits
Or8(x, y) == x + y - And8(x, y)

\* x & !y on 8 bits
AndNot8(x, y) == x - And8(x, y)

\* u8 / u16 wrapping arithmetic
Wrap8(x) == x % 256
Wrap16(x) == x % 65536

\* the lowest k in 0..4 with bit k of x set (x has one of its low five bits set)
LowestBit(x) == CHOOSE k \in 0..4 : Test(x, k) /\ \A j \in 0..(k-1) : ~Test(x, j)

\* F applied to v: a `let` binding, v computed once and named in F
With(v, F(_)) == F(v)

-----------------------------------------------------------------------------
(* Zero-initialised byte arrays as finite maps of their non-zero bytes.    *)

EmptyMem == [j \in {} |-> 0]

MemGet(m, i) == IF i \in DOMAIN m THEN m[i] ELSE 0

MemSet(m, i, v) ==
    IF v = 0
    THEN [j \in (DOMAIN m) \ {i} |-> m[j]]
    ELSE [j \in (DOMAIN m) \cup {i} |-> IF j = i THEN v ELSE m[j]]

-----------------------------------------------------------------------------
(* Program constants.                                                      *)

\* InterruptFlags bit positions and the handler vectors
VBLANK == 0
LCD_STAT == 1
TIMER == 2
SERIAL == 3
JOYPAD == 4

\* LCDControl bit positions (the bitflags type is declared outside src/)
LCD_PPU_ENABLE == 7
WINDOW_TILEMAP_AREA == 6
WINDOW_ENABLE == 5
BG_TILEDATA_AREA == 4
BG_TILEMAP_AREA == 3
OBJ_SIZE == 2
OBJ_ENABLE == 1
BG_WINDOW_ENABLE == 0

OFFSET_CARTRIDGE_TYPE == 327
OFFSET_ROM_SIZE == 328
OFFSET_RAM_SIZE == 329
OFFSET_CHECKSUM == 333

\* dots per frame, dots per line
FRAME_DOTS == 70224
LINE_DOTS == 456

\* bytes copied by one OAM DMA transfer
DMA_LENGTH == 160

-----------------------------------------------------------------------------
(* The cartridge image handed to load: `program: Vec<u8>`.  An image is    *)
(* described by its length, the header bytes the loader consumes, the code *)
(* at the entry point 0x0100 and the byte at each interrupt vector; every  *)
(* other byte is 0x00.                                                     *)

ENTRY_POINT == 256

NoImage ==
    [len |-> 0, cartridge_type |-> 0, rom_size_type |-> 0, ram_size_type |-> 0,
     code |-> <<>>, handler |-> 0]

\* program[a]
RomByte(img, a) ==
    CASE a = OFFSET_CARTRIDGE_TYPE -> img.cartridge_type
      [] a = OFFSET_ROM_SIZE -> img.rom_size_type
      [] a = OFFSET_RAM_SIZE -> img.ram_size_type
      [] a \in ENTRY_POINT..(ENTRY_POINT + Len(img.code) - 1) -> img.code[a - ENTRY_POINT + 1]
      [] a \in {64, 72, 80, 88, 96} -> img.handler
      [] OTHER -> 0

\* `1 << rom_size_type` banks of 32 KiB, in 16 KiB banks
BankCount(rom_size_type) == (32 * 1024 * Pow2(rom_size_type)) \div 16384

\* the match of cartridge_ram_size_kib; any other code is unreachable!()
RamSizeCodes == {0, 2, 3, 4, 5}

cartridge_ram_size_kib(ram_size_type) ==
    CASE ram_size_type = 0 -> 0
      [] ram_size_type = 2 -> 8
      [] ram_size_type = 3 -> 32
      [] ram_size_type = 4 -> 128
      [] ram_size_type = 5 -> 64
      [] OTHER -> 0

-----------------------------------------------------------------------------
(* Construction: the power-up state of every component.                    *)

CpuRegisters_default ==
    [a |-> 1, f |-> 176, b |-> 0, c |-> 19, d |-> 0, e |-> 216, h |-> 1, l |-> 77,
     pc |-> 256, sp |-> 65534]

Cpu_new ==
    [registers |-> CpuRegisters_default,
     interrupts_master_enable |-> TRUE,
     halted |-> FALSE]

\* IoRegisters::new.  The audio registers of this struct are never reached:
\* the bus routes 0xFF10..0xFF3F to the Apu, which keeps its own.
\* dma_counter, window_ly, joyp_directions and joyp_actions are fields the
\* Cpu, Ppu and GameBoy use; the struct revision declaring them is not in src.
IoRegisters_new ==
    [joyp |-> 207, sb |-> 0, sc |-> 126, div |-> 171, cpu_clock |-> 0,
     tima |-> 0, clock_accumulator |-> 0, tma |-> 0, tac |-> 248,
     interrupt_flag |-> 225,
     lcdc |-> 145, stat |-> 133, scy |-> 0, scx |-> 0, ly |-> 0, lyc |-> 0,
     dma |-> 255, bgp |-> 252, obp0 |-> 0, obp1 |-> 0, wy |-> 0, wx |-> 0,
     key1 |-> 255, vbk |-> 255,
     hdma1 |-> 255, hdma2 |-> 255, hdma3 |-> 255, hdma4 |-> 255, hdma5 |-> 255,
     rp |-> 255, bcps |-> 255, bcpd |-> 255, ocps |-> 255, ocpd |-> 255,
     opri |-> 255, svbk |-> 255,
     interrupt_enable |-> 0,
     dma_counter |-> 0, window_ly |-> 0,
     joyp_directions |-> 15, joyp_actions |-> 15]

PixelFetcher_new ==
    [dot_counter |-> 0,
     state |-> [tag |-> "Sleep"],
     mode |-> [tag |-> "Background", tile_address |-> 38912],
     bg_fifo |-> <<>>,
     obj_fifo |-> <<>>]

Ppu_new ==
    [dot_counter |-> 0,
     vram |-> EmptyMem,
     oam |-> EmptyMem,
     scanline_x |-> 0,
     sprites |-> <<>>,
     screen |-> EmptyMem,
     pixel_fetcher |-> PixelFetcher_new,
     delay |-> 0]

\* Apu::new.  accumulator counts in units of 1/750 of an APU tick against
\* a step of 16384 (APU_FREQUENCY / AUDIO_SAMPLE_RATE = 16384 / 750); the
\* buffer is kept by its length.
Apu_new ==
    [accumulator |-> 0, buffer_len |-> 0,
     div_prev |-> 0, div_apu |-> 0,
     nr10 |-> 128, nr11 |-> 191, nr12 |-> 243, nr13 |-> 255, nr14 |-> 191,
     ch1_freq_sweep_addition |-> FALSE, ch1_freq_sweep_slope |-> 0,
     ch1_freq_sweep_pace |-> 0, ch1_freq_sweep_counter |-> 0,
     ch1_length_timer |-> 31, ch1_envelope_sweep_pace |-> 3,
     ch1_envelope_sweep_counter |-> 0, ch1_envelope_sweep_direction_increase |-> -1,
     ch1_period_counter |-> 2047, ch1_duty_counter |-> 0, ch1_volume |-> 15,
     nr21 |-> 191, nr22 |-> 0, nr23 |-> 255, nr24 |-> 191,
     ch2_length_timer |-> 31, ch2_envelope_sweep_pace |-> 3,
     ch2_envelope_sweep_counter |-> 0, ch2_envelope_sweep_direction_increase |-> -1,
     ch2_period_counter |-> 2047, ch2_duty_counter |-> 0, ch2_volume |-> 15,
     nr30 |-> 127, nr31 |-> 255, nr32 |-> 159, nr33 |-> 255, nr34 |-> 191,
     ch3_length_timer |-> 255, ch3_period_counter |-> 2047, ch3_sample_counter |-> 0,
     nr41 |-> 255, nr42 |-> 0, nr43 |-> 0, nr44 |-> 191,
     ch4_length_timer |-> 31, ch4_envelope_sweep_pace |-> 0,
     ch4_envelope_sweep_counter |-> 0, ch4_envelope_sweep_direction_increase |-> -1,
     ch4_tick_counter |-> 0, ch4_lsfr |-> 0, ch4_volume |-> 0,
     nr50 |-> 119, nr51 |-> 243, nr52 |-> 241,
     wave_ram |-> EmptyMem]

Bus_new ==
    [program |-> NoImage,
     rom_current_bank |-> 1,
     rom_banks |-> [image |-> NoImage, count |-> 0],
     banking_mode |-> "Simple",
     cartridge_ram_size_type |-> 0,
     ram_enable |-> FALSE,
     ram_current_bank |-> 0,
     ram_bank_count |-> 0,
     ram_banks |-> EmptyMem,
     wram |-> EmptyMem,
     hram |-> EmptyMem]

\* GameBoy::new
GameBoy_new ==
    [cpu |-> Cpu_new, io |-> IoRegisters_new, bus |-> Bus_new, ppu |-> Ppu_new,
     apu |-> Apu_new, loaded |-> FALSE, failed |-> FALSE]

\* a panic: the process aborts in the state it has reached
Panic(s) == [s EXCEPT !.failed = TRUE]

-----------------------------------------------------------------------------
(* Vram (ppu.rs): video RAM and OAM.                                       *)

Vram_mem_read(p, addr) ==
    IF addr \in 32768..40959 THEN MemGet(p.vram, addr - 32768)
    ELSE MemGet(p.oam, addr - 65024)

Vram_mem_write(p, addr, value) ==
    IF addr \in 32768..40959
    THEN [p EXCEPT !.vram = MemSet(p.vram, addr - 32768, value)]
    ELSE [p EXCEPT !.oam = MemSet(p.oam, addr - 65024, value)]

-----------------------------------------------------------------------------
(* IoRegisters (io_registers.rs), for the addresses the bus sends it:      *)
(* 0xFF00..0xFF0F, 0xFF40..0xFF7F and 0xFFFF.                              *)

\* the reads that panic!(): the HDMA registers and the two CGB-only ones
IoRegisters_read_panics(addr) == addr \in 65361..65365 \/ addr \in {65398, 65399}

IoRegisters_mem_read(r, addr) ==
    CASE addr = 65280 -> r.joyp
      [] addr = 65281 -> r.sb
      [] addr = 65282 -> r.sc
      [] addr = 65284 -> r.div
      [] addr = 65285 -> r.tima
      [] addr = 65286 -> r.tma
      [] addr = 65287 -> r.tac
      [] addr = 65295 -> r.interrupt_flag
      [] addr = 65344 -> r.lcdc
      [] addr = 65345 -> r.stat
      [] addr = 65346 -> r.scy
      [] addr = 65347 -> r.scx
      [] addr = 65348 -> r.ly
      [] addr = 65349 -> r.lyc
      [] addr = 65350 -> r.dma
      [] addr = 65351 -> r.bgp
      [] addr = 65352 -> r.obp0
      [] addr = 65353 -> r.obp1
      [] addr = 65354 -> r.wy
      [] addr = 65355 -> r.wx
      [] addr = 65357 -> r.key1
      [] addr = 65359 -> r.vbk
      [] addr = 65366 -> r.rp
      [] addr = 65384 -> r.bcps
      [] addr = 65385 -> r.bcpd
      [] addr = 65386 -> r.ocps
      [] addr = 65387 -> r.ocpd
      [] addr = 65388 -> r.opri
      [] addr = 65392 -> r.svbk
      [] addr = 65535 -> r.interrupt_enable
      [] OTHER -> 255

\* The start of an OAM DMA transfer.  Cpu::execute reads io_registers.dma_counter,
\* but no code under src/ declares or sets it: the write to 0xFF46 there stores
\* the page only.  The counter is set as the specification describes.
StartDma(r) == [r EXCEPT !.dma_counter = DMA_LENGTH]

\* The joypad nibble on bits 0..3 of JOYP.  GameBoy::button_pressed keeps the
\* shadow nibbles joyp_directions and joyp_actions, but no code under src/ reads
\* them: the write to 0xFF00 there stores the two select bits only.  The nibble
\* is surfaced as the specification describes: a clear bit 4 selects the
\* directions, a clear bit 5 the actions.
JoypadNibble(r) ==
    And8(IF Test(r.joyp, 4) THEN 15 ELSE r.joyp_directions,
         IF Test(r.joyp, 5) THEN 15 ELSE r.joyp_actions)

\* the selected nibble placed on bits 0..3; a bit of the nibble that was 1 in
\* before and is 0 now requests the JOYPAD interrupt (as the specification
\* describes)
JoypadSurface(r, before) ==
    With(JoypadNibble(r), LAMBDA nibble :
         [r EXCEPT !.joyp = And8(r.joyp, 48) + nibble,
                   !.interrupt_flag = IF And8(before % 16, 15 - nibble) # 0
                                      THEN Or8(r.interrupt_flag, Pow2(JOYPAD))
                                      ELSE r.interrupt_flag])

IoRegisters_mem_write(r, addr, value) ==
    CASE addr = 65280 -> JoypadSurface([r EXCEPT !.joyp = And8(value, 48)], r.joyp)
      [] addr = 65281 -> [r EXCEPT !.sb = value]
      [] addr = 65282 -> [r EXCEPT !.sc = value]
      [] addr = 65284 -> [r EXCEPT !.div = 0, !.cpu_clock = 0]
      [] addr = 65285 -> [r EXCEPT !.tima = value]
      [] addr = 65286 -> [r EXCEPT !.tma = value]
      [] addr = 65287 ->
            IF r.tac % 4 # value % 4
            THEN [r EXCEPT !.tima = r.tma, !.clock_accumulator = 0, !.tac = Or8(248, value)]
            ELSE [r EXCEPT !.tac = Or8(248, value)]
      [] addr = 65295 -> [r EXCEPT !.interrupt_flag = value % 32]
      [] addr = 65344 -> [r EXCEPT !.lcdc = value]
      [] addr = 65345 -> [r EXCEPT !.stat = And8(value, 248)]
      [] addr = 65346 -> [r EXCEPT !.scy = value]
      [] addr = 65347 -> [r EXCEPT !.scx = value]
      [] addr = 65349 -> [r EXCEPT !.lyc = value]
      [] addr = 65350 -> StartDma([r EXCEPT !.dma = value])
      [] addr = 65351 -> [r EXCEPT !.bgp = value]
      [] addr = 65352 -> [r EXCEPT !.obp0 = value]
      [] addr = 65353 -> [r EXCEPT !.obp1 = value]
      [] addr = 65354 -> [r EXCEPT !.wy = value]
      [] addr = 65355 -> [r EXCEPT !.wx = value]
      [] addr = 65361 -> [r EXCEPT !.hdma1 = value]
      [] addr = 65362 -> [r EXCEPT !.hdma2 = value]
      [] addr = 65363 -> [r EXCEPT !.hdma3 = value]
      [] addr = 65364 -> [r EXCEPT !.hdma4 = value]
      [] addr = 65365 -> [r EXCEPT !.hdma5 = value]
      [] addr = 65535 -> [r EXCEPT !.interrupt_enable = value % 32]
      [] OTHER -> r

-----------------------------------------------------------------------------
(* Apu register file (gameboy/apu.rs, impl Mem for Apu): 0xFF10..0xFF3F.   *)

\* the write-only registers, whose read is a panic!()
ApuWriteOnly == {65299, 65304, 65307, 65309, 65312}

\* the addresses of the range neither match names: unreachable!()
ApuUnmapped == {65301, 65311} \cup (65319..65327)

Apu_read_panics(addr) == addr \in ApuWriteOnly \cup ApuUnmapped

Apu_write_panics(addr) == addr \in ApuUnmapped

Apu_mem_read(a, addr) ==
    CASE addr = 65296 -> a.nr10
      [] addr = 65297 -> And8(a.nr11, 192)
      [] addr = 65298 -> a.nr12
      [] addr = 65300 -> And8(a.nr14, 64)
      [] addr = 65302 -> And8(a.nr21, 192)
      [] addr = 65303 -> a.nr22
      [] addr = 65305 -> And8(a.nr24, 64)
      [] addr = 65306 -> a.nr30
      [] addr = 65308 -> a.nr32
      [] addr = 65310 -> And8(a.nr34, 64)
      [] addr = 65313 -> a.nr42
      [] addr = 65314 -> a.nr43
      [] addr = 65315 -> And8(a.nr44, 64)
      [] addr = 65316 -> a.nr50
      [] addr = 65317 -> a.nr51
      [] addr = 65318 -> a.nr52
      [] addr \in 65328..65343 -> MemGet(a.wave_ram, addr - 65328)
      [] OTHER -> 255

\* the envelope direction latched by a trigger
EnvelopeDirection(nrx2) == IF And8(nrx2, 8) = 0 THEN -1 ELSE 1

\* CHn_ENABLE is bit n-1 of NR52
SoundEnableInsert(nr52, ch) == Or8(nr52, Pow2(ch - 1))
SoundEnableRemove(nr52, ch) == AndNot8(nr52, Pow2(ch - 1))

Apu_mem_write(a, addr, value) ==
    CASE addr = 65296 -> [a EXCEPT !.nr10 = value]
      [] addr = 65297 ->
            LET nr11 == And8(And8(value, 192), 63 - And8(value, 63))
            IN [a EXCEPT !.nr11 = nr11, !.ch1_length_timer = And8(nr11, 63)]
      [] addr = 65298 -> [a EXCEPT !.nr12 = value]
      [] addr = 65299 -> [a EXCEPT !.nr13 = value]
      [] addr = 65300 ->
            IF Test(value, 7) /\ And8(a.nr12, 248) # 0
            THEN [a EXCEPT !.nr14 = value,
                           !.ch1_length_timer = And8(a.nr11, 63),
                           !.ch1_freq_sweep_pace = And8(a.nr10, 112) \div 16,
                           !.ch1_freq_sweep_addition = (And8(a.nr10, 8) = 0),
                           !.ch1_freq_sweep_slope = And8(a.nr10, 7),
                           !.ch1_freq_sweep_counter = 0,
                           !.ch1_envelope_sweep_direction_increase = EnvelopeDirection(a.nr12),
                           !.ch1_envelope_sweep_pace = And8(a.nr12, 3),
                           !.ch1_envelope_sweep_counter = 0,
                           !.ch1_duty_counter = 0,
                           !.ch1_volume = a.nr12 \div 16,
                           !.nr52 = SoundEnableInsert(a.nr52, 1)]
            ELSE [a EXCEPT !.nr14 = value]
      [] addr = 65302 ->
            LET nr21 == And8(And8(value, 192), 63 - And8(value, 63))
            IN [a EXCEPT !.nr21 = nr21, !.ch2_length_timer = And8(nr21, 63)]
      [] addr = 65303 -> [a EXCEPT !.nr22 = value]
      [] addr = 65304 -> [a EXCEPT !.nr23 = value]
      [] addr = 65305 ->
            IF Test(value, 7) /\ And8(a.nr22, 248) # 0
            THEN [a EXCEPT !.nr24 = value,
                           !.ch2_length_timer = And8(a.nr21, 63),
                           !.ch2_envelope_sweep_direction_increase = EnvelopeDirection(a.nr22),
                           !.ch2_envelope_sweep_pace = And8(a.nr22, 3),
                           !.ch2_envelope_sweep_counter = 0,
                           !.ch2_duty_counter = 0,
                           !.ch2_volume = a.nr22 \div 16,
                           !.nr52 = SoundEnableInsert(a.nr52, 2)]
            ELSE [a EXCEPT !.nr24 = value]
      [] addr = 65306 -> [a EXCEPT !.nr30 = And8(value, 128)]
      [] addr = 65307 -> [a EXCEPT !.nr31 = 255 - value]
      [] addr = 65308 -> [a EXCEPT !.nr32 = value]
      [] addr = 65309 -> [a EXCEPT !.nr33 = value]
      [] addr = 65310 ->
            IF Test(value, 7) /\ Test(a.nr30, 7)
            THEN [a EXCEPT !.nr34 = value,
                           !.ch3_length_timer = a.nr31,
                           !.ch3_period_counter = 0,
                           !.ch3_sample_counter = 0,
                           !.nr52 = SoundEnableInsert(a.nr52, 3)]
            ELSE [a EXCEPT !.nr34 = value]
      [] addr = 65312 ->
            LET nr41 == 63 - And8(value, 63)
            IN [a EXCEPT !.nr41 = nr41, !.ch4_length_timer = And8(nr41, 63)]
      [] addr = 65313 -> [a EXCEPT !.nr42 = value]
      [] addr = 65314 -> [a EXCEPT !.nr43 = value]
      [] addr = 65315 ->
            IF Test(value, 7) /\ And8(a.nr42, 248) # 0
            THEN [a EXCEPT !.nr44 = value,
                           !.ch4_length_timer = And8(a.nr41, 63),
                           !.ch4_envelope_sweep_direction_increase = EnvelopeDirection(a.nr42),
                           !.ch4_envelope_sweep_pace = And8(a.nr42, 3),
                           !.ch4_envelope_sweep_counter = 0,
                           !.ch4_tick_counter = 0,
                           !.ch4_lsfr = 0,
                           !.ch4_volume = a.nr42 \div 16,
                           !.nr52 = SoundEnableInsert(a.nr52, 4)]
            ELSE [a EXCEPT !.nr44 = value]
      [] addr = 65316 -> [a EXCEPT !.nr50 = value]
      [] addr = 65317 -> [a EXCEPT !.nr51 = value]
      [] addr = 65318 -> [a EXCEPT !.nr52 = And8(value, 128)]
      [] addr \in 65328..65343 ->
            [a EXCEPT !.wave_ram = MemSet(a.wave_ram, addr - 65328, value)]
      [] OTHER -> a


-----------------------------------------------------------------------------
(* Bus (gameboy/bus.rs).  rom_banks is the bank-sized copy of an image:    *)
(* the image it was cut from and the number of banks pushed.               *)

\* the index of the cartridge RAM bank an access to 0xA000..0xBFFF uses
RamBankIndex(b) == IF b.banking_mode = "Simple" THEN 0 ELSE b.ram_current_bank

\* variant of EchoIndex that gives the echo region work RAM of its own
EchoIndex_unmirrored(addr) == (addr - 57344) + 4096

\* the work RAM index of an echo address: (addr - 0xe000)
EchoIndex(addr) == addr - 57344

\* mem_read aborts: a bank index out of bounds, or a register read that panics
Bus_read_panics(s, addr) ==
    CASE addr \in 0..16383 -> s.bus.rom_banks.count = 0
      [] addr \in 16384..32767 -> s.bus.rom_current_bank >= s.bus.rom_banks.count
      [] addr \in 40960..49151 ->
            s.bus.ram_enable /\ RamBankIndex(s.bus) >= s.bus.ram_bank_count
      [] addr \in 65296..65343 -> Apu_read_panics(addr)
      [] addr \in (65280..65295) \cup (65344..65407) -> IoRegisters_read_panics(addr)
      [] OTHER -> FALSE

Bus_mem_read(s, addr) ==
    CASE addr \in 0..16383 -> RomByte(s.bus.rom_banks.image, addr)
      [] addr \in 16384..32767 ->
            RomByte(s.bus.rom_banks.image, s.bus.rom_current_bank * 16384 + (addr - 16384))
      [] addr \in 32768..40959 -> Vram_mem_read(s.ppu, addr)
      [] addr \in 40960..49151 ->
            IF ~s.bus.ram_enable THEN 255
            ELSE MemGet(s.bus.ram_banks, RamBankIndex(s.bus) * 8192 + (addr - 40960))
      [] addr \in 49152..57343 -> MemGet(s.bus.wram, addr - 49152)
      [] addr \in 57344..65023 -> MemGet(s.bus.wram, EchoIndex(addr))
      [] addr \in 65024..65183 -> 0
      [] addr \in 65184..65279 -> 255
      [] addr \in 65296..65343 -> Apu_mem_read(s.apu, addr)
      [] addr \in (65280..65295) \cup (65344..65407) -> IoRegisters_mem_read(s.io, addr)
      [] addr \in 65408..65534 -> MemGet(s.bus.hram, addr - 65408)
      [] OTHER -> IoRegisters_mem_read(s.io, addr)

\* the mask of the ROM bank register for the image's ROM size code
BankCountMask(rom_size_type) ==
    CASE rom_size_type = 0 -> 1
      [] rom_size_type = 1 -> 3
      [] rom_size_type = 2 -> 7
      [] rom_size_type = 3 -> 15
      [] OTHER -> 31

Bus_write_panics(s, addr) ==
    CASE addr \in 8192..16383 ->
            \/ s.bus.program.len <= OFFSET_ROM_SIZE
            \/ RomByte(s.bus.program, OFFSET_ROM_SIZE) > 4
      [] addr \in 40960..49151 ->
            s.bus.ram_enable /\ RamBankIndex(s.bus) >= s.bus.ram_bank_count
      [] addr \in 65296..65343 -> Apu_write_panics(addr)
      [] OTHER -> FALSE

Bus_mem_write(s, addr, value) ==
    CASE addr \in 0..8191 -> [s EXCEPT !.bus.ram_enable = (value % 16 = 10)]
      [] addr \in 8192..16383 ->
            LET bank == And8(value, BankCountMask(RomByte(s.bus.program, OFFSET_ROM_SIZE)))
            IN [s EXCEPT !.bus.rom_current_bank = IF bank = 0 THEN 1 ELSE bank]
      [] addr \in 16384..24575 ->
            IF s.bus.banking_mode = "AdvancedRomOrRamBanking" /\ s.bus.cartridge_ram_size_type = 3
            THEN [s EXCEPT !.bus.ram_current_bank = value % 4]
            ELSE s
      [] addr \in 24576..32767 ->
            [s EXCEPT !.bus.banking_mode =
                IF value % 2 = 0 THEN "Simple" ELSE "AdvancedRomOrRamBanking"]
      [] addr \in 32768..40959 -> [s EXCEPT !.ppu = Vram_mem_write(s.ppu, addr, value)]
      [] addr \in 40960..49151 ->
            IF ~s.bus.ram_enable THEN s
            ELSE [s EXCEPT !.bus.ram_banks =
                    MemSet(s.bus.ram_banks, RamBankIndex(s.bus) * 8192 + (addr - 40960), value)]
      [] addr \in 49152..57343 -> [s EXCEPT !.bus.wram = MemSet(s.bus.wram, addr - 49152, value)]
      [] addr \in 57344..65023 -> [s EXCEPT !.bus.wram = MemSet(s.bus.wram, EchoIndex(addr), value)]
      [] addr \in 65024..65183 -> [s EXCEPT !.ppu = Vram_mem_write(s.ppu, addr, value)]
      [] addr \in 65184..65279 -> s
      [] addr \in 65296..65343 -> [s EXCEPT !.apu = Apu_mem_write(s.apu, addr, value)]
      [] addr \in (65280..65295) \cup (65344..65407) ->
            [s EXCEPT !.io = IoRegisters_mem_write(s.io, addr, value)]
      [] addr \in 65408..65534 -> [s EXCEPT !.bus.hram = MemSet(s.bus.hram, addr - 65408, value)]
      [] OTHER -> [s EXCEPT !.io = IoRegisters_mem_write(s.io, addr, value)]

\* a write as the callers see it: the panic, or the effect
Bus_write(s, addr, value) ==
    IF Bus_write_panics(s, addr) THEN Panic(s) ELSE Bus_mem_write(s, addr, value)

\* variant of Bus_reset that keeps the contents of work RAM
Bus_reset_keeping_wram(s) ==
    [s EXCEPT !.bus = [Bus_new EXCEPT !.wram = s.bus.wram],
              !.ppu = Ppu_new, !.apu = Apu_new, !.io = IoRegisters_new]

\* Bus::reset: *self = Self::new(), the PPU, APU and register file included
Bus_reset(s) ==
    [s EXCEPT !.bus = Bus_new, !.ppu = Ppu_new, !.apu = Apu_new, !.io = IoRegisters_new]

\* the complete 16 KiB banks an image of this length holds
WholeBanks(img) == img.len \div 16384

\* Bus::load.  verify_checksum indexes the header before anything is changed;
\* the banks are sliced out of the image after the reset.
Bus_load(s, img) ==
    IF img.len <= OFFSET_CHECKSUM THEN Panic(s)
    ELSE
      LET bank_count == BankCount(img.rom_size_type)
          r == Bus_reset(s)
      IN IF WholeBanks(img) < bank_count
         THEN Panic([r EXCEPT !.bus.rom_banks = [image |-> img, count |-> WholeBanks(img)]])
         ELSE
           LET b == [r EXCEPT !.bus.rom_banks = [image |-> img, count |-> bank_count],
                              !.bus.cartridge_ram_size_type = img.ram_size_type]
           IN IF img.ram_size_type \notin RamSizeCodes THEN Panic(b)
              ELSE [b EXCEPT !.bus.ram_enable = FALSE,
                             !.bus.ram_bank_count =
                                 (cartridge_ram_size_kib(img.ram_size_type) * 1024) \div 8192,
                             !.bus.program = img]

\* Cpu::reset, called by GameBoy::load, is not among the sources: the CPU is
\* put back to its power-up state, as the lifecycle description says.
Cpu_reset(s) == [s EXCEPT !.cpu = Cpu_new]

\* GameBoy::load
GameBoy_load(s, img) ==
    LET l == Bus_load(Cpu_reset(s), img)
    IN IF l.failed THEN l ELSE [l EXCEPT !.loaded = TRUE]


-----------------------------------------------------------------------------
(* Cpu (cpu.rs).  An operation that returns a value yields a record of the *)
(* machine it leaves and the value.                                        *)

\* a bus read as the callers see it (0 stands for the value of an aborted read)
Bus_read(s, addr) == IF Bus_read_panics(s, addr) THEN 0 ELSE Bus_mem_read(s, addr)

\* the machine after a read: aborted if the read panics
AfterRead(s, addr) == IF Bus_read_panics(s, addr) THEN Panic(s) ELSE s

\* a write in a sequence of accesses: nothing runs after a panic
Bus_write_seq(s, addr, value) == IF s.failed THEN s ELSE Bus_write(s, addr, value)

\* read_u8: the byte at pc; pc moves on
Cpu_read_u8(s) ==
    [s |-> [AfterRead(s, s.cpu.registers.pc) EXCEPT
                !.cpu.registers.pc = Wrap16(s.cpu.registers.pc + 1)],
     v |-> Bus_read(s, s.cpu.registers.pc)]

\* read_u16: two read_u8, little endian
Cpu_read_u16(s) ==
    With(Cpu_read_u8(s), LAMBDA lo :
    With(Cpu_read_u8(lo.s), LAMBDA hi :
         [s |-> hi.s, v |-> hi.v * 256 + lo.v]))

\* variant of Cpu_call that stores the return address high byte first
Cpu_call_swapped(s, addr) ==
    LET sp == Wrap16(s.cpu.registers.sp - 2)
        pc == s.cpu.registers.pc
        s1 == [s EXCEPT !.cpu.registers.sp = sp]
        s2 == Bus_write_seq(s1, sp, pc \div 256)
        s3 == Bus_write_seq(s2, Wrap16(sp + 1), pc % 256)
    IN [s3 EXCEPT !.cpu.registers.pc = addr]

\* call: push pc (low byte at sp, high byte at sp+1), jump
Cpu_call(s, addr) ==
    LET sp == Wrap16(s.cpu.registers.sp - 2)
        pc == s.cpu.registers.pc
        s1 == [s EXCEPT !.cpu.registers.sp = sp]
        s2 == Bus_write_seq(s1, sp, pc % 256)
        s3 == Bus_write_seq(s2, Wrap16(sp + 1), (pc \div 256) % 256)
    IN [s3 EXCEPT !.cpu.registers.pc = addr]

\* pop: low byte at sp, high byte at sp+1
Cpu_pop(s) ==
    LET sp == s.cpu.registers.sp
        sp1 == Wrap16(sp + 1)
        s1 == AfterRead(s, sp)
        s2 == IF s1.failed THEN s1 ELSE AfterRead(s1, sp1)
    IN [s |-> [s2 EXCEPT !.cpu.registers.sp = Wrap16(sp + 2)],
        v |-> Bus_read(s, sp1) * 256 + Bus_read(s, sp)]

\* reti: ret, then IME on
Cpu_reti(s) ==
    With(Cpu_pop(s), LAMBDA p :
         [p.s EXCEPT !.cpu.registers.pc = p.v, !.cpu.interrupts_master_enable = TRUE])

\* the handler of each flag
HandlerAddr(k) ==
    CASE k = VBLANK -> 64
      [] k = LCD_STAT -> 72
      [] k = TIMER -> 80
      [] k = SERIAL -> 88
      [] k = JOYPAD -> 96

\* variant of FirstPending that scans the flags from JOYPAD down
RECURSIVE FirstPending_descending(_, _, _)
FirstPending_descending(ie, iflag, k) ==
    IF k > JOYPAD THEN -1
    ELSE IF Test(ie, JOYPAD - k) /\ Test(iflag, JOYPAD - k) THEN JOYPAD - k
    ELSE FirstPending_descending(ie, iflag, k + 1)

\* the loop over InterruptFlags::all() in declaration order, from flag k on:
\* the first flag that IE and IF both contain, -1 if the loop runs out
RECURSIVE FirstPending(_, _, _)
FirstPending(ie, iflag, k) ==
    IF k > JOYPAD THEN -1
    ELSE IF Test(ie, k) /\ Test(iflag, k) THEN k
    ELSE FirstPending(ie, iflag, k + 1)

\* variant of WakeWithoutDispatch that leaves the CPU halted
WakeWithoutDispatch_asleep(s) == s

\* IME clear: a pending interrupt ends HALT and is not handled
WakeWithoutDispatch(s) ==
    IF And8(s.io.interrupt_enable, s.io.interrupt_flag) # 0
    THEN [s EXCEPT !.cpu.halted = FALSE]
    ELSE s

\* interrupt_service_routine: the machine it leaves and whether it dispatched
Cpu_interrupt_service_routine(s) ==
    IF ~s.cpu.interrupts_master_enable
    THEN [s |-> WakeWithoutDispatch(s), handled |-> FALSE]
    ELSE
      LET k == FirstPending(s.io.interrupt_enable, s.io.interrupt_flag, VBLANK)
      IN IF k = -1
         THEN [s |-> [s EXCEPT !.cpu.interrupts_master_enable = TRUE], handled |-> FALSE]
         ELSE
           LET s1 == [s EXCEPT !.cpu.halted = FALSE,
                               !.io.interrupt_flag = AndNot8(s.io.interrupt_flag, Pow2(k))]
               s2 == Cpu_call(s1, HandlerAddr(k))
           IN [s |-> [s2 EXCEPT !.cpu.interrupts_master_enable = TRUE], handled |-> TRUE]

\* variant of TimerUpdateFreq with the periods of TAC[1:0] = 1 and 2 exchanged
TimerUpdateFreq_exchanged(tac) ==
    CASE tac % 4 = 0 -> 1024
      [] tac % 4 = 1 -> 64
      [] tac % 4 = 2 -> 16
      [] OTHER -> 256

\* the timer period in T-cycles selected by TAC
TimerUpdateFreq(tac) ==
    CASE tac % 4 = 0 -> 1024
      [] tac % 4 = 1 -> 16
      [] tac % 4 = 2 -> 64
      [] OTHER -> 256

\* variant of TimerLoop whose overflow reloads TIMA and raises no request
RECURSIVE TimerLoop_no_request(_, _)
TimerLoop_no_request(r, freq) ==
    IF r.clock_accumulator < freq THEN r
    ELSE
      LET r1 == [r EXCEPT !.clock_accumulator = r.clock_accumulator - freq]
      IN IF r.tima = 255
         THEN TimerLoop_no_request([r1 EXCEPT !.tima = r.tma], freq)
         ELSE TimerLoop_no_request([r1 EXCEPT !.tima = r.tima + 1], freq)

\* the while loop of handle_timers: one TIMA increment per elapsed period
RECURSIVE TimerLoop(_, _)
TimerLoop(r, freq) ==
    IF r.clock_accumulator < freq THEN r
    ELSE
      LET r1 == [r EXCEPT !.clock_accumulator = r.clock_accumulator - freq]
      IN IF r.tima = 255
         THEN TimerLoop([r1 EXCEPT !.tima = r.tma,
                                   !.interrupt_flag = Or8(r.interrupt_flag, Pow2(TIMER))], freq)
         ELSE TimerLoop([r1 EXCEPT !.tima = r.tima + 1], freq)

\* handle_timers
Cpu_handle_timers(s, m_cycles) ==
    LET t == 4 * m_cycles
        clock == Wrap16(s.io.cpu_clock + t)
        r == [s.io EXCEPT !.cpu_clock = clock, !.div = ((clock \div 256) % 256) % 64]
    IN IF Test(r.tac, 2)
       THEN [s EXCEPT !.io = TimerLoop([r EXCEPT !.clock_accumulator = r.clock_accumulator + t],
                                       TimerUpdateFreq(r.tac))]
       ELSE [s EXCEPT !.io = r]

\* CpuFlags (cpu_registers.rs): the bit of each flag in F
ZERO == 7
NEGATIVE == 6
HALF_CARRY == 5
CARRY == 4

\* f.set(flag, on)
FlagSet(f, flag, on) == IF on THEN Or8(f, Pow2(flag)) ELSE AndNot8(f, Pow2(flag))

\* the four set/insert/remove calls of an arithmetic helper
Flags(f, z, n, h, c) ==
    FlagSet(FlagSet(FlagSet(FlagSet(f, ZERO, z), NEGATIVE, n), HALF_CARRY, h), CARRY, c)

\* 1 if f contains CARRY
CarryIn(f) == IF Test(f, CARRY) THEN 1 ELSE 0

\* ((x & 0x0f) + (y & 0x0f) + c) & 0x10 != 0
AddHalfCarry(register_value, value, c) ==
    Test(And8(register_value, 15) + And8(value, 15) + c, 4)

\* (x & 0x0f).wrapping_sub(y & 0x0f).wrapping_sub(c) & 0x10 != 0
SubHalfCarry(register_value, value, c) ==
    Test(Wrap8(Wrap8(And8(register_value, 15) - And8(value, 15)) - c), 4)

\* add: the registers it leaves and the result
Cpu_add(regs, register_value, value) ==
    [regs |-> [regs EXCEPT !.f = Flags(@, Wrap8(register_value + value) = 0, FALSE,
                                       AddHalfCarry(register_value, value, 0),
                                       register_value + value > 255)],
     v |-> Wrap8(register_value + value)]

Cpu_sub(regs, register_value, value) ==
    [regs |-> [regs EXCEPT !.f = Flags(@, Wrap8(register_value - value) = 0, TRUE,
                                       SubHalfCarry(register_value, value, 0),
                                       register_value < value)],
     v |-> Wrap8(register_value - value)]

\* adc: value + c first, then register_value + that; either addition may carry
Cpu_adc(regs, register_value, value) ==
    With(CarryIn(regs.f), LAMBDA c :
    With(Wrap8(value + c), LAMBDA r1 :
         [regs |-> [regs EXCEPT !.f = Flags(@, Wrap8(register_value + r1) = 0, FALSE,
                                            AddHalfCarry(register_value, value, c),
                                            value + c > 255 \/ register_value + r1 > 255)],
          v |-> Wrap8(register_value + r1)]))

\* variant of Cpu_sbc whose carry leaves out the borrow of the carry-in
Cpu_sbc_first_borrow(regs, register_value, value) ==
    With(CarryIn(regs.f), LAMBDA c :
    With(Wrap8(register_value - value), LAMBDA r1 :
         [regs |-> [regs EXCEPT !.f = Flags(@, Wrap8(r1 - c) = 0, TRUE,
                                            SubHalfCarry(register_value, value, c),
                                            register_value < value)],
          v |-> Wrap8(r1 - c)]))

\* sbc: register_value - value first, then minus c; either may borrow
Cpu_sbc(regs, register_value, value) ==
    With(CarryIn(regs.f), LAMBDA c :
    With(Wrap8(register_value - value), LAMBDA r1 :
         [regs |-> [regs EXCEPT !.f = Flags(@, Wrap8(r1 - c) = 0, TRUE,
                                            SubHalfCarry(register_value, value, c),
                                            register_value < value \/ r1 < c)],
          v |-> Wrap8(r1 - c)]))

\* cp: the flags of sub, no result
Cpu_cp(regs, register_value, value) == Cpu_sub(regs, register_value, value).regs

\* CpuRegisters::af, bc, de, hl (from_be_bytes)
CpuRegisters_af(regs) == regs.a * 256 + regs.f
CpuRegisters_bc(regs) == regs.b * 256 + regs.c
CpuRegisters_de(regs) == regs.d * 256 + regs.e
CpuRegisters_hl(regs) == regs.h * 256 + regs.l

\* variant of CpuRegisters_set_af that keeps all eight bits of F
CpuRegisters_set_af_retained(regs, value) ==
    [regs EXCEPT !.a = value \div 256, !.f = value % 256]

\* set_af: CpuFlags::from_bits_truncate keeps the four flag bits
CpuRegisters_set_af(regs, value) ==
    [regs EXCEPT !.a = value \div 256, !.f = And8(value % 256, 240)]

CpuRegisters_set_bc(regs, value) == [regs EXCEPT !.b = value \div 256, !.c = value % 256]
CpuRegisters_set_de(regs, value) == [regs EXCEPT !.d = value \div 256, !.e = value % 256]
CpuRegisters_set_hl(regs, value) == [regs EXCEPT !.h = value \div 256, !.l = value % 256]

\* variant of Cpu_push that stores the high byte at sp and the low byte at sp+1
Cpu_push_swapped(s, register_value) ==
    With(Wrap16(s.cpu.registers.sp - 2), LAMBDA sp :
    With(Bus_write_seq([s EXCEPT !.cpu.registers.sp = sp], sp, register_value \div 256),
         LAMBDA s1 : Bus_write_seq(s1, Wrap16(sp + 1), register_value % 256)))

\* push: sp -= 2, low byte at sp, high byte at sp+1
Cpu_push(s, register_value) ==
    With(Wrap16(s.cpu.registers.sp - 2), LAMBDA sp :
    With(Bus_write_seq([s EXCEPT !.cpu.registers.sp = sp], sp, register_value % 256),
         LAMBDA s1 : Bus_write_seq(s1, Wrap16(sp + 1), register_value \div 256)))

\* variant of InvalidInstruction with the panic the source has commented out
InvalidInstruction_panics(s) == Panic(s)

\* invalid_instruction(): an empty body
InvalidInstruction(s) == s

LD_BC_D16 == 1
LD_DE_D16 == 17
LD_HL_D16 == 33
POP_BC == 193
PUSH_BC == 197
ADD_A_D8 == 198
ADC_A_D8 == 206
POP_DE == 209
PUSH_DE == 213
SUB_D8 == 214
SBC_A_D8 == 222
POP_HL == 225
PUSH_HL == 229
POP_AF == 241
PUSH_AF == 245
CP_D8 == 254

\* the opcodes whose arm is invalid_instruction()
UndefinedOpcodes == {211, 219, 221, 227, 228, 235, 236, 237, 244, 252, 253}

AluOpcodes == {ADD_A_D8, ADC_A_D8, SUB_D8, SBC_A_D8, CP_D8}

StackOpcodes ==
    {LD_BC_D16, LD_DE_D16, LD_HL_D16, POP_BC, PUSH_BC, POP_DE, PUSH_DE, POP_HL, PUSH_HL,
     POP_AF, PUSH_AF}

\* the arms of the 8-bit arithmetic with an immediate operand (f: the fetch)
Cpu_handle_alu(f) ==
    With(Cpu_read_u8(f.s), LAMBDA b :
    With(b.s.cpu.registers, LAMBDA regs :
         CASE f.v = ADD_A_D8 ->
                With(Cpu_add(regs, regs.a, b.v), LAMBDA r :
                     [s |-> [b.s EXCEPT !.cpu.registers = [r.regs EXCEPT !.a = r.v]], m |-> 2])
           [] f.v = ADC_A_D8 ->
                With(Cpu_adc(regs, regs.a, b.v), LAMBDA r :
                     [s |-> [b.s EXCEPT !.cpu.registers = [r.regs EXCEPT !.a = r.v]], m |-> 2])
           [] f.v = SUB_D8 ->
                With(Cpu_sub(regs, regs.a, b.v), LAMBDA r :
                     [s |-> [b.s EXCEPT !.cpu.registers = [r.regs EXCEPT !.a = r.v]], m |-> 2])
           [] f.v = SBC_A_D8 ->
                With(Cpu_sbc(regs, regs.a, b.v), LAMBDA r :
                     [s |-> [b.s EXCEPT !.cpu.registers = [r.regs EXCEPT !.a = r.v]], m |-> 2])
           [] OTHER ->
                [s |-> [b.s EXCEPT !.cpu.registers = Cpu_cp(regs, regs.a, b.v)], m |-> 2]))

\* the arms of LD rr,d16, PUSH rr and POP rr
Cpu_handle_stack(f) ==
    CASE f.v = LD_BC_D16 ->
           With(Cpu_read_u16(f.s), LAMBDA w :
                [s |-> [w.s EXCEPT !.cpu.registers = CpuRegisters_set_bc(@, w.v)], m |-> 3])
      [] f.v = LD_DE_D16 ->
           With(Cpu_read_u16(f.s), LAMBDA w :
                [s |-> [w.s EXCEPT !.cpu.registers = CpuRegisters_set_de(@, w.v)], m |-> 3])
      [] f.v = LD_HL_D16 ->
           With(Cpu_read_u16(f.s), LAMBDA w :
                [s |-> [w.s EXCEPT !.cpu.registers = CpuRegisters_set_hl(@, w.v)], m |-> 3])
      [] f.v = POP_BC ->
           With(Cpu_pop(f.s), LAMBDA p :
                [s |-> [p.s EXCEPT !.cpu.registers = CpuRegisters_set_bc(@, p.v)], m |-> 3])
      [] f.v = POP_DE ->
           With(Cpu_pop(f.s), LAMBDA p :
                [s |-> [p.s EXCEPT !.cpu.registers = CpuRegisters_set_de(@, p.v)], m |-> 3])
      [] f.v = POP_HL ->
           With(Cpu_pop(f.s), LAMBDA p :
                [s |-> [p.s EXCEPT !.cpu.registers = CpuRegisters_set_hl(@, p.v)], m |-> 3])
      [] f.v = POP_AF ->
           With(Cpu_pop(f.s), LAMBDA p :
                [s |-> [p.s EXCEPT !.cpu.registers = CpuRegisters_set_af(@, p.v)], m |-> 3])
      [] f.v = PUSH_BC -> [s |-> Cpu_push(f.s, CpuRegisters_bc(f.s.cpu.registers)), m |-> 4]
      [] f.v = PUSH_DE -> [s |-> Cpu_push(f.s, CpuRegisters_de(f.s.cpu.registers)), m |-> 4]
      [] f.v = PUSH_HL -> [s |-> Cpu_push(f.s, CpuRegisters_hl(f.s.cpu.registers)), m |-> 4]
      [] OTHER -> [s |-> Cpu_push(f.s, CpuRegisters_af(f.s.cpu.registers)), m |-> 4]

\* the opcodes of the instruction interpreter that are modelled
NOP == 0
LD_SP_D16 == 49
LD_A_D8 == 62
HALT == 118
JP_A16 == 195
RETI == 217
LDH_A8_A == 224
DI == 243
EI == 251

Opcodes ==
    {NOP, LD_SP_D16, LD_A_D8, HALT, JP_A16, RETI, LDH_A8_A, DI, EI}
    \cup AluOpcodes \cup StackOpcodes \cup UndefinedOpcodes

\* variant of HaltedStep in which a halted CPU keeps fetching
HaltedStep_running(s) == FALSE

\* the early return of handle_instruction
HaltedStep(s) == s.cpu.halted

\* handle_instruction: the machine it leaves, the machine cycles, and whether
\* an opcode was fetched
Cpu_handle_instruction(s) ==
    IF HaltedStep(s) THEN [s |-> s, m |-> 1, fetched |-> FALSE, opcode |-> -1]
    ELSE
      With(Cpu_read_u8(s), LAMBDA f :
      With(CASE f.v = NOP -> [s |-> f.s, m |-> 1]
             [] f.v = LD_SP_D16 ->
                  With(Cpu_read_u16(f.s), LAMBDA w :
                       [s |-> [w.s EXCEPT !.cpu.registers.sp = w.v], m |-> 3])
             [] f.v = LD_A_D8 ->
                  With(Cpu_read_u8(f.s), LAMBDA b :
                       [s |-> [b.s EXCEPT !.cpu.registers.a = b.v], m |-> 2])
             [] f.v = HALT -> [s |-> [f.s EXCEPT !.cpu.halted = TRUE], m |-> 1]
             [] f.v = JP_A16 ->
                  With(Cpu_read_u16(f.s), LAMBDA w :
                       [s |-> [w.s EXCEPT !.cpu.registers.pc = w.v], m |-> 4])
             [] f.v = RETI -> [s |-> Cpu_reti(f.s), m |-> 4]
             [] f.v = LDH_A8_A ->
                  With(Cpu_read_u8(f.s), LAMBDA b :
                       [s |-> Bus_write_seq(b.s, 65280 + b.v, b.s.cpu.registers.a), m |-> 3])
             [] f.v = DI -> [s |-> [f.s EXCEPT !.cpu.interrupts_master_enable = FALSE], m |-> 1]
             [] f.v = EI -> [s |-> [f.s EXCEPT !.cpu.interrupts_master_enable = TRUE], m |-> 1]
             [] f.v \in AluOpcodes -> Cpu_handle_alu(f)
             [] f.v \in StackOpcodes -> Cpu_handle_stack(f)
             [] f.v \in UndefinedOpcodes -> [s |-> InvalidInstruction(f.s), m |-> 1]
             [] OTHER -> [s |-> f.s, m |-> 1], LAMBDA r :
           [s |-> r.s, m |-> r.m, fetched |-> TRUE, opcode |-> f.v]))

\* variant of DmaByteIndex that copies the page backwards
DmaByteIndex_descending(r) == r.dma_counter - 1

\* the index of the byte the DMA step copies
DmaByteIndex(r) == DMA_LENGTH - r.dma_counter

\* the DMA branch of execute: one byte, one machine cycle, no timers
Cpu_dma_step(s) ==
    LET src_base_addr == s.io.dma * 256
        byte_index == DmaByteIndex(s.io)
    IN With(Bus_write_seq(AfterRead(s, src_base_addr + byte_index), 65024 + byte_index,
                          Bus_read(s, src_base_addr + byte_index)), LAMBDA s2 :
            IF s2.failed THEN s2 ELSE [s2 EXCEPT !.io.dma_counter = s2.io.dma_counter - 1])

\* execute (the body of Cpu::tick): the machine it leaves, the machine cycles it
\* returns, the branch taken, and the opcode fetched (-1 if none)
Cpu_execute(s) ==
    IF s.io.dma_counter > 0
    THEN [s |-> Cpu_dma_step(s), m |-> 1, path |-> "dma", opcode |-> -1]
    ELSE
      With(Cpu_interrupt_service_routine(s), LAMBDA i :
           IF i.handled THEN [s |-> i.s, m |-> 5, path |-> "interrupt", opcode |-> -1]
           ELSE
             With(Cpu_handle_instruction(i.s), LAMBDA h :
                  [s |-> IF h.s.failed THEN h.s ELSE Cpu_handle_timers(h.s, h.m),
                   m |-> h.m,
                   path |-> IF h.fetched THEN "instruction" ELSE "halted",
                   opcode |-> h.opcode]))

\* the opcode the next instruction fetch would read is one of the modelled ones
NextOpcodeModelled(s) ==
    \/ s.io.dma_counter > 0
    \/ With(Cpu_interrupt_service_routine(s), LAMBDA i :
            \/ i.handled
            \/ i.s.cpu.halted
            \/ Bus_read(i.s, i.s.cpu.registers.pc) \in Opcodes)


-----------------------------------------------------------------------------
(* PixelFetcher (ppu.rs).  A state or mode is a record tagged with the     *)
(* enum variant; a SpritePixel is [x, color, palette, bg_over_obj]; an Oam *)
(* entry is [y, x, tile_index, attributes, oam_index].                     *)

\* lcdc.contains(flag)
LcdcContains(r, flag) == Test(r.lcdc, flag)

\* the two-bit colour of pixel i of a tile row, leftmost pixel first
TilePixel(lo, hi, i) == Bit(hi, 7 - i) * 2 + Bit(lo, 7 - i)

\* the same with the row mirrored
TilePixelFlipped(lo, hi, i) == Bit(hi, i) * 2 + Bit(lo, i)

\* the address of the low byte of the tile row (GetTileRowLow)
TileRowAddress(mode, tile_index, r) ==
    LET bit_12 == IF ~(LcdcContains(r, BG_TILEDATA_AREA) \/ Test(tile_index, 7)) THEN 1 ELSE 0
    IN CASE mode.tag = "Background" ->
              32768 + bit_12 * 4096 + tile_index * 16 + (Wrap8(r.ly + r.scy) % 8) * 2
         [] mode.tag = "Window" ->
              32768 + bit_12 * 4096 + tile_index * 16 + (r.window_ly % 8) * 2
         [] OTHER ->
              LET row == Wrap8(r.ly - (mode.y % 8)) % 8
                  row_offset == IF Test(mode.attributes, 6) THEN 7 - row ELSE row
              IN 32768 + tile_index * 16 + row_offset * 2

\* obj_fifo padded to eight entries with transparent pixels
RECURSIVE PadObjFifo(_, _, _)
PadObjFifo(fifo, x, obp0) ==
    IF Len(fifo) >= 8 THEN fifo
    ELSE PadObjFifo(Append(fifo, [x |-> x - 8 + Len(fifo), color |-> 0,
                                  bg_over_obj |-> FALSE, palette |-> obp0]), x, obp0)

\* the eight pixels of the fetched object row
ObjPixels(mode, lo, hi, r) ==
    [i \in 1..8 |->
        [x |-> mode.x - 8 + (i - 1),
         color |-> IF Test(mode.attributes, 5) THEN TilePixelFlipped(lo, hi, i - 1)
                   ELSE TilePixel(lo, hi, i - 1),
         bg_over_obj |-> Test(mode.attributes, 7),
         palette |-> IF ~Test(mode.attributes, 4) THEN r.obp0 ELSE r.obp1]]

\* iter().position(|s| s.x == x): the first 1-based index, 0 if none
FifoPosition(fifo, x) ==
    IF \E i \in 1..Len(fifo) : fifo[i].x = x
    THEN CHOOSE i \in 1..Len(fifo) : fifo[i].x = x /\ \A j \in 1..(i - 1) : fifo[j].x # x
    ELSE 0

\* the merge loop: from index on, a transparent slot takes the next new pixel
RECURSIVE MergeObjPixels(_, _, _)
MergeObjPixels(fifo, pixels, index) ==
    IF index > 8 THEN fifo
    ELSE IF fifo[index].color = 0
         THEN MergeObjPixels([fifo EXCEPT ![index] = Head(pixels)], Tail(pixels), index + 1)
         ELSE MergeObjPixels(fifo, pixels, index + 1)

\* PushPixels
PixelFetcher_push_pixels(f, r) ==
    LET lo == f.state.tile_byte_lo
        hi == f.state.tile_byte_hi
    IN IF f.mode.tag = "Object"
       THEN LET padded == PadObjFifo(f.obj_fifo, f.mode.x, r.obp0)
                pixels == ObjPixels(f.mode, lo, hi, r)
                start == FifoPosition(padded, pixels[1].x)
            IN [f EXCEPT !.obj_fifo = IF start = 0 THEN padded
                                      ELSE MergeObjPixels(padded, pixels, start),
                         !.state = [tag |-> "Sleep"]]
       ELSE IF f.bg_fifo = <<>>
            THEN [f EXCEPT !.bg_fifo = [i \in 1..8 |-> TilePixel(lo, hi, i - 1)],
                           !.state = [tag |-> "Sleep"]]
            ELSE f

\* PixelFetcher::tick
PixelFetcher_tick(f0, p, r) ==
    LET f == [f0 EXCEPT !.dot_counter = f0.dot_counter + 1]
        odd == f.dot_counter % 2 = 1
    IN CASE f.state.tag = "Sleep" -> f
         [] f.state.tag = "GetTileId" ->
              IF odd THEN f
              ELSE [f EXCEPT !.state =
                      [tag |-> "GetTileRowLow",
                       tile_index |-> IF f.mode.tag = "Object" THEN f.mode.tile_index
                                      ELSE Vram_mem_read(p, f.mode.tile_address)]]
         [] f.state.tag = "GetTileRowLow" ->
              IF odd THEN f
              ELSE LET tile_address == TileRowAddress(f.mode, f.state.tile_index, r)
                   IN [f EXCEPT !.state = [tag |-> "GetTileRowHigh",
                                           tile_byte_lo |-> Vram_mem_read(p, tile_address),
                                           tile_address |-> tile_address]]
         [] f.state.tag = "GetTileRowHigh" ->
              IF odd THEN f
              ELSE [f EXCEPT !.state =
                      [tag |-> "PushPixels",
                       tile_byte_lo |-> f.state.tile_byte_lo,
                       tile_byte_hi |-> Vram_mem_read(p, f.state.tile_address + 1)]]
         [] OTHER -> PixelFetcher_push_pixels(f, r)

PixelFetcher_fetch_bg_tile(f, tile_map_addr) ==
    [f EXCEPT !.bg_fifo = <<>>, !.dot_counter = 0, !.state = [tag |-> "GetTileId"],
              !.mode = [tag |-> "Background", tile_address |-> tile_map_addr]]

PixelFetcher_fetch_window_tile(f, tile_map_addr) ==
    [f EXCEPT !.bg_fifo = <<>>, !.dot_counter = 0, !.state = [tag |-> "GetTileId"],
              !.mode = [tag |-> "Window", tile_address |-> tile_map_addr]]

PixelFetcher_fetch_obj_tile(f, oam) ==
    [f EXCEPT !.dot_counter = 0, !.state = [tag |-> "GetTileId"],
              !.mode = [tag |-> "Object", x |-> oam.x, y |-> oam.y,
                        attributes |-> oam.attributes, tile_index |-> oam.tile_index]]


-----------------------------------------------------------------------------
(* Ppu (ppu.rs).                                                           *)

\* Vec::with_capacity(10): the sprites of one scanline
SPRITE_CAPACITY == 10

\* the sprite under the current pixel: scanline_x + 8 >= s.x && scanline_x < s.x
SpriteAtX(p, sp) == p.scanline_x + 8 >= sp.x /\ p.scanline_x < sp.x

\* fetch_sprites indexes OAM beyond its end: the read is unreachable!()
Ppu_fetch_sprites_panics(p, line_dot) ==
    line_dot % 2 = 1 /\ Len(p.sprites) # SPRITE_CAPACITY /\ (line_dot \div 2) * 4 >= DMA_LENGTH

\* variant of Ppu_fetch_sprites that keeps every sprite of the line
Ppu_fetch_sprites_unlimited(p, r, sprite_height, line_dot) ==
    IF line_dot % 2 = 0 THEN p
    ELSE IF Vram_mem_read(p, 65024 + (line_dot \div 2) * 4) <= r.ly + 16
            /\ r.ly + 16 - sprite_height < Vram_mem_read(p, 65024 + (line_dot \div 2) * 4)
    THEN [p EXCEPT !.sprites = Append(p.sprites,
             [oam_index |-> (line_dot % 256) \div 2,
              y |-> Vram_mem_read(p, 65024 + (line_dot \div 2) * 4),
              x |-> Vram_mem_read(p, 65024 + (line_dot \div 2) * 4 + 1),
              tile_index |-> Vram_mem_read(p, 65024 + (line_dot \div 2) * 4 + 2),
              attributes |-> Vram_mem_read(p, 65024 + (line_dot \div 2) * 4 + 3)])]
    ELSE p

\* fetch_sprites: one OAM entry every second dot of mode 2
Ppu_fetch_sprites(p, r, sprite_height, line_dot) ==
    IF line_dot % 2 = 0 THEN p
    ELSE IF Len(p.sprites) = SPRITE_CAPACITY THEN p
    ELSE
      LET oam_addr == 65024 + (line_dot \div 2) * 4
          sprite_y == Vram_mem_read(p, oam_addr)
      IN IF sprite_y <= r.ly + 16 /\ r.ly + 16 - sprite_height < sprite_y
         THEN [p EXCEPT !.sprites = Append(p.sprites,
                  [oam_index |-> (line_dot % 256) \div 2,
                   y |-> sprite_y,
                   x |-> Vram_mem_read(p, oam_addr + 1),
                   tile_index |-> Vram_mem_read(p, oam_addr + 2),
                   attributes |-> Vram_mem_read(p, oam_addr + 3)])]
         ELSE p

\* variant of SpriteBefore that compares x alone
SpriteBefore_by_x(a, b) == a.x < b.x

\* the order of sort_by: x, then oam_index
SpriteBefore(a, b) == a.x < b.x \/ (a.x = b.x /\ a.oam_index < b.oam_index)

\* one sprite put at its place in a sorted list
RECURSIVE InsertSprite(_, _)
InsertSprite(sorted, sp) ==
    IF sorted = <<>> THEN <<sp>>
    ELSE IF SpriteBefore(sp, Head(sorted)) THEN <<sp>> \o sorted
    ELSE <<Head(sorted)>> \o InsertSprite(Tail(sorted), sp)

\* sprites.sort_by(..)
RECURSIVE SortSprites(_)
SortSprites(sprites) ==
    IF sprites = <<>> THEN <<>>
    ELSE InsertSprite(SortSprites(Tail(sprites)), Head(sprites))

\* fetch_bg_pixels
Ppu_fetch_bg_pixels(p, r, is_window_scanline) ==
    LET x7 == p.scanline_x + 7
        is_window_tile ==
            is_window_scanline /\ x7 >= r.wx /\ x7 <= (IF r.wx + 159 > 255 THEN 255 ELSE r.wx + 159)
    IN IF is_window_tile
       THEN LET bit_10 == Bit(r.lcdc, WINDOW_TILEMAP_AREA)
                offset_y == r.window_ly \div 8
                offset_x == Wrap8(x7 - r.wx) \div 8
            IN [p EXCEPT !.pixel_fetcher = PixelFetcher_fetch_window_tile(
                    p.pixel_fetcher, 38912 + bit_10 * 1024 + offset_y * 32 + offset_x)]
       ELSE LET bit_10 == Bit(r.lcdc, BG_TILEMAP_AREA)
                offset_y == Wrap8(r.ly + r.scy) \div 8
                offset_x == Wrap8(p.scanline_x + r.scx) \div 8
            IN [p EXCEPT !.pixel_fetcher = PixelFetcher_fetch_bg_tile(
                    p.pixel_fetcher, 38912 + bit_10 * 1024 + offset_y * 32 + offset_x)]

\* sequence s without its i-th element
RemoveAt(s, i) == [j \in 1..(Len(s) - 1) |-> IF j < i THEN s[j] ELSE s[j + 1]]

\* fetch_obj_pixels
Ppu_fetch_obj_pixels(p, r) ==
    IF p.pixel_fetcher.bg_fifo = <<>> \/ p.pixel_fetcher.state.tag # "Sleep" THEN p
    ELSE IF ~\E i \in 1..Len(p.sprites) : SpriteAtX(p, p.sprites[i]) THEN p
    ELSE
      LET index == CHOOSE i \in 1..Len(p.sprites) :
                      SpriteAtX(p, p.sprites[i]) /\ \A j \in 1..(i - 1) : ~SpriteAtX(p, p.sprites[j])
          sprite == p.sprites[index]
          flip_sprite_v == Test(sprite.attributes, 6)
          upper == r.ly + 16 - sprite.y < 8
          tile_index ==
              IF LcdcContains(r, OBJ_SIZE)
              THEN IF flip_sprite_v = upper
                   THEN Or8(sprite.tile_index, 1)
                   ELSE And8(sprite.tile_index, 254)
              ELSE sprite.tile_index
      IN [p EXCEPT !.sprites = RemoveAt(p.sprites, index),
                   !.pixel_fetcher = PixelFetcher_fetch_obj_tile(
                        p.pixel_fetcher, [sprite EXCEPT !.tile_index = tile_index]),
                   !.delay = p.delay + 7]

\* the `while let` over obj_fifo: pixels left of the current x are dropped
RECURSIVE DropStaleObjPixels(_, _)
DropStaleObjPixels(fifo, scanline_x) ==
    IF fifo = <<>> THEN fifo
    ELSE IF Head(fifo).x < scanline_x THEN DropStaleObjPixels(Tail(fifo), scanline_x)
    ELSE fifo

\* Ppu_finish with the wrap one dot late
Ppu_finish_late_wrap(p, r, mode, lcd_enable) ==
    LET dot == IF lcd_enable THEN p.dot_counter + 1 ELSE p.dot_counter
        wrap == dot = FRAME_DOTS + 1
        r1 == IF wrap
              THEN [r EXCEPT !.ly = 0, !.window_ly = 0,
                             !.interrupt_flag = AndNot8(r.interrupt_flag, Pow2(VBLANK) + Pow2(LCD_STAT))]
              ELSE r
    IN [ppu |-> [p EXCEPT !.dot_counter = IF wrap THEN 0 ELSE dot],
        io |-> [r1 EXCEPT !.stat = (r1.stat - (r1.stat % 4)) + mode],
        result |-> wrap,
        counted |-> TRUE]

\* the end of tick: the dot counter advances when the LCD is on, wraps at the
\* end of the frame, and the mode is stored in STAT
Ppu_finish(p, r, mode, lcd_enable) ==
    LET dot == IF lcd_enable THEN p.dot_counter + 1 ELSE p.dot_counter
        wrap == dot = FRAME_DOTS
        r1 == IF wrap
              THEN [r EXCEPT !.ly = 0, !.window_ly = 0,
                             !.interrupt_flag = AndNot8(r.interrupt_flag, Pow2(VBLANK) + Pow2(LCD_STAT))]
              ELSE r
    IN [ppu |-> [p EXCEPT !.dot_counter = IF wrap THEN 0 ELSE dot],
        io |-> [r1 EXCEPT !.stat = (r1.stat - (r1.stat % 4)) + mode],
        result |-> wrap,
        counted |-> TRUE]

\* a return from the middle of mode 3: nothing after the match runs
Ppu_early_return(p, r) == [ppu |-> p, io |-> r, result |-> FALSE, counted |-> FALSE]

\* the pixel mixing and output of mode 3, from the pop of the background pixel
Ppu_render_pixel(p, r, lcd_enable, bg_enable, sprites_enable, is_window_scanline) ==
    LET f == p.pixel_fetcher
        has_bg == f.bg_fifo # <<>>
        bg_rest == IF has_bg THEN Tail(f.bg_fifo) ELSE f.bg_fifo
        p1 == [p EXCEPT !.pixel_fetcher.bg_fifo = bg_rest]
        skip == r.scx % 8
    IN IF p.scanline_x = 0 /\ skip > 0 /\ Len(bg_rest) >= 8 - skip THEN Ppu_early_return(p1, r)
       ELSE IF ~has_bg THEN Ppu_early_return(p1, r)
       ELSE
         LET bg_pixel == Head(f.bg_fifo)
             live == DropStaleObjPixels(f.obj_fifo, p.scanline_x)
             has_obj == live # <<>>
             sprite_pixel == Head(live)
             obj_rest == IF has_obj THEN Tail(live) ELSE live
             use_sprite ==
                 has_obj /\ (\/ ~bg_enable
                             \/ (sprites_enable /\ ~((sprite_pixel.bg_over_obj /\ bg_pixel # 0)
                                                     \/ sprite_pixel.color = 0)))
             pixel == IF use_sprite THEN sprite_pixel.color
                      ELSE IF bg_enable THEN bg_pixel ELSE 0
             palette == IF use_sprite THEN sprite_pixel.palette ELSE r.bgp
             p2 == [p1 EXCEPT !.pixel_fetcher.obj_fifo = obj_rest]
         IN IF p.scanline_x < 160 /\ r.ly < 144
            THEN LET color == (palette \div Pow2(pixel * 2)) % 4
                     x == (p.scanline_x + 1) % 160
                     p3 == [p2 EXCEPT !.screen = MemSet(p2.screen, r.ly * 160 + p.scanline_x, color),
                                      !.scanline_x = x]
                 IN IF x = 0
                    THEN LET r1 == IF lcd_enable /\ Test(r.stat, 3)
                                   THEN [r EXCEPT !.interrupt_flag = Or8(r.interrupt_flag, Pow2(LCD_STAT))]
                                   ELSE r
                             r2 == IF lcd_enable
                                   THEN [r1 EXCEPT !.window_ly = IF is_window_scanline
                                                                 THEN (r1.window_ly + 1) % 144
                                                                 ELSE r1.window_ly,
                                                   !.ly = r1.ly + 1]
                                   ELSE r1
                         IN Ppu_finish(p3, r2, 0, lcd_enable)
                    ELSE Ppu_finish(p3, r, 3, lcd_enable)
            ELSE Ppu_finish(p2, r, 3, lcd_enable)

\* mode 3 of tick
Ppu_mode3(p0, r, lcd_enable, bg_enable, is_window_scanline) ==
    LET p == [p0 EXCEPT !.pixel_fetcher = PixelFetcher_tick(p0.pixel_fetcher, p0, r)]
        sprites_enable == LcdcContains(r, OBJ_ENABLE)
    IN IF p.delay > 0 THEN Ppu_early_return([p EXCEPT !.delay = p.delay - 1], r)
       ELSE IF p.pixel_fetcher.bg_fifo = <<>> /\ p.pixel_fetcher.state.tag = "Sleep"
            THEN Ppu_early_return(Ppu_fetch_bg_pixels(p, r, is_window_scanline), r)
       ELSE IF sprites_enable /\ \E i \in 1..Len(p.sprites) : SpriteAtX(p, p.sprites[i])
            THEN Ppu_early_return(Ppu_fetch_obj_pixels(p, r), r)
       ELSE Ppu_render_pixel(p, r, lcd_enable, bg_enable, sprites_enable, is_window_scanline)

\* Ppu::tick aborts
Ppu_tick_panics(p, r) ==
    LET lcd_enable == LcdcContains(r, LCD_PPU_ENABLE)
        mode == IF lcd_enable THEN r.stat % 4 ELSE 0
    IN mode = 2 /\ Ppu_fetch_sprites_panics(p, p.dot_counter % LINE_DOTS)

\* Ppu::tick: the Ppu and register file it leaves, and the frame-ready result
Ppu_tick(p, r0) ==
    LET lcd_enable == LcdcContains(r0, LCD_PPU_ENABLE)
        ra == IF ~lcd_enable THEN [r0 EXCEPT !.stat = r0.stat - (r0.stat % 8)] ELSE r0
        rb == IF ra.lyc = ra.ly
              THEN [ra EXCEPT
                      !.interrupt_flag =
                          IF lcd_enable /\ ~Test(ra.stat, 2) /\ Test(ra.stat, 6)
                          THEN Or8(ra.interrupt_flag, Pow2(LCD_STAT)) ELSE ra.interrupt_flag,
                      !.stat = Or8(ra.stat, 4)]
              ELSE [ra EXCEPT !.stat = AndNot8(ra.stat, 4)]
        mode == rb.stat % 4
        line_dot == p.dot_counter % LINE_DOTS
        bg_enable == LcdcContains(rb, BG_WINDOW_ENABLE)
        window_enable == LcdcContains(rb, WINDOW_ENABLE) /\ rb.wx < 167 /\ rb.wy < 144
        is_window_scanline == window_enable /\ rb.ly >= rb.wy /\ rb.ly < Wrap8(rb.wy + 144)
        sprite_height == IF LcdcContains(rb, OBJ_SIZE) THEN 16 ELSE 8
    IN CASE mode = 0 ->
              IF line_dot = 0
              THEN IF rb.ly = 144
                   THEN LET stat_int == Test(rb.stat, 4) \/ Test(rb.stat, 5)
                            flags == IF lcd_enable
                                     THEN Or8(rb.interrupt_flag,
                                              Pow2(VBLANK) + (IF stat_int THEN Pow2(LCD_STAT) ELSE 0))
                                     ELSE rb.interrupt_flag
                        IN Ppu_finish(p, [rb EXCEPT !.interrupt_flag = flags], 1, lcd_enable)
                   ELSE LET flags == IF lcd_enable /\ Test(rb.stat, 5)
                                     THEN Or8(rb.interrupt_flag, Pow2(LCD_STAT))
                                     ELSE rb.interrupt_flag
                        IN Ppu_finish([p EXCEPT !.sprites = <<>>],
                                      [rb EXCEPT !.interrupt_flag = flags], 2, lcd_enable)
              ELSE Ppu_finish(p, rb, 0, lcd_enable)
         [] mode = 1 ->
              LET rc == [rb EXCEPT !.ly = (p.dot_counter \div LINE_DOTS) % 256]
              IN IF p.dot_counter = 0
                 THEN Ppu_finish([p EXCEPT !.sprites = <<>>], rc, 2, lcd_enable)
                 ELSE Ppu_finish(p, rc, 1, lcd_enable)
         [] mode = 2 ->
              LET p1 == Ppu_fetch_sprites(p, rb, sprite_height, line_dot)
              IN IF line_dot = 80
                 THEN Ppu_finish([p1 EXCEPT !.pixel_fetcher.bg_fifo = <<>>,
                                            !.pixel_fetcher.obj_fifo = <<>>,
                                            !.sprites = SortSprites(p1.sprites)],
                                 rb, 3, lcd_enable)
                 ELSE Ppu_finish(p1, rb, 2, lcd_enable)
         [] OTHER -> Ppu_mode3(p, rb, lcd_enable, bg_enable, is_window_scanline)


-----------------------------------------------------------------------------
(* Apu (gameboy/apu.rs): the frame sequencer and the per-cycle tick.       *)

APU_FREQUENCY == 1048576
AUDIO_SAMPLE_RATE == 48000

\* the accumulator gains 1.0 per tick and a sample pair is due when it exceeds
\* APU_FREQUENCY / AUDIO_SAMPLE_RATE; both are scaled by AUDIO_SAMPLE_RATE / 64
ACC_TICK == AUDIO_SAMPLE_RATE \div 64
ACC_STEP == APU_FREQUENCY \div 64

\* volume.saturating_add_signed(direction).min(0xf)
EnvelopeVolume(volume, direction) ==
    IF volume + direction < 0 THEN 0
    ELSE IF volume + direction > 15 THEN 15
    ELSE volume + direction

\* the 64 Hz envelope step of process
Apu_envelope(a) ==
    With(IF Test(a.nr52, 0) /\ a.ch1_envelope_sweep_pace > 0
         THEN LET c == (a.ch1_envelope_sweep_counter + 1) % a.ch1_envelope_sweep_pace
              IN [a EXCEPT !.ch1_envelope_sweep_counter = c,
                           !.ch1_volume = IF c = 0
                               THEN EnvelopeVolume(a.ch1_volume, a.ch1_envelope_sweep_direction_increase)
                               ELSE a.ch1_volume]
         ELSE a, LAMBDA a1 :
    With(IF Test(a1.nr52, 1) /\ a1.ch2_envelope_sweep_pace > 0
         THEN LET c == (a1.ch2_envelope_sweep_counter + 1) % a1.ch2_envelope_sweep_pace
              IN [a1 EXCEPT !.ch2_envelope_sweep_counter = c,
                            !.ch2_volume = IF c = 0
                                THEN EnvelopeVolume(a1.ch2_volume, a1.ch2_envelope_sweep_direction_increase)
                                ELSE a1.ch2_volume,
                            !.ch2_envelope_sweep_pace = a1.nr22 % 8]
         ELSE a1, LAMBDA a2 :
         IF Test(a2.nr52, 3) /\ a2.ch4_envelope_sweep_pace > 0
         THEN LET c == (a2.ch4_envelope_sweep_counter + 1) % a2.ch4_envelope_sweep_pace
              IN [a2 EXCEPT !.ch4_envelope_sweep_counter = c,
                            !.ch4_volume = IF c = 0
                                THEN EnvelopeVolume(a2.ch4_volume, a2.ch4_envelope_sweep_direction_increase)
                                ELSE a2.ch4_volume,
                            !.ch4_envelope_sweep_pace = a2.nr42 % 8]
         ELSE a2))

\* the 256 Hz length step of process
Apu_length(a) ==
    With(IF Test(a.nr14, 6)
         THEN LET l1 == Wrap8(a.ch1_length_timer - 1)
              IN [a EXCEPT !.ch1_length_timer = l1,
                           !.nr52 = IF l1 = 0 THEN SoundEnableRemove(a.nr52, 1) ELSE a.nr52]
         ELSE a, LAMBDA a1 :
    With(IF Test(a1.nr24, 6)
         THEN LET l2 == Wrap8(a1.ch2_length_timer - 1)
              IN [a1 EXCEPT !.ch2_length_timer = l2,
                            !.nr52 = IF l2 = 0 THEN SoundEnableRemove(a1.nr52, 2) ELSE a1.nr52]
         ELSE a1, LAMBDA a2 :
    With(IF Test(a2.nr34, 6)
         THEN LET l3 == Wrap8(a2.ch3_length_timer - 1)
              IN [a2 EXCEPT !.ch3_length_timer = l3,
                            !.nr52 = IF l3 = 0 THEN SoundEnableRemove(a2.nr52, 3) ELSE a2.nr52]
         ELSE a2, LAMBDA a3 :
         IF Test(a3.nr44, 6)
         THEN LET l4 == Wrap8(a3.ch4_length_timer - 1)
              IN [a3 EXCEPT !.ch4_length_timer = l4,
                            !.nr52 = IF l4 = 0 THEN SoundEnableRemove(a3.nr52, 4) ELSE a3.nr52]
         ELSE a3)))

\* the 128 Hz frequency sweep of channel 1
Apu_sweep(a) ==
    IF a.ch1_freq_sweep_pace = 0 THEN a
    ELSE
      LET c == (a.ch1_freq_sweep_counter + 1) % a.ch1_freq_sweep_pace
      IN IF c # 0 THEN [a EXCEPT !.ch1_freq_sweep_counter = c]
         ELSE
           LET period == (a.nr14 % 8) * 256 + a.nr13
               delta == period \div Pow2(a.ch1_freq_sweep_slope)
               next_period == IF a.ch1_freq_sweep_addition THEN period + delta ELSE period - delta
           IN [a EXCEPT !.ch1_freq_sweep_counter = c,
                        !.nr13 = next_period % 256,
                        !.nr14 = Or8(a.nr14 % 8, (next_period \div 256) % 256),
                        !.nr52 = IF next_period > 2047 THEN SoundEnableRemove(a.nr52, 1) ELSE a.nr52,
                        !.ch1_freq_sweep_pace = (a.nr10 % 128) \div 16,
                        !.ch1_freq_sweep_addition = ~Test(a.nr10, 3),
                        !.ch1_freq_sweep_slope = a.nr10 % 8]

\* process with the sweep clocked with the length timers
Apu_process_sweep_with_length(a) ==
    With(IF a.div_apu % 8 = 0 THEN Apu_envelope(a) ELSE a, LAMBDA a1 :
    With(IF a1.div_apu % 2 = 0 THEN Apu_length(a1) ELSE a1, LAMBDA a2 :
         IF a2.div_apu % 2 = 0 THEN Apu_sweep(a2) ELSE a2))

\* process: the frame sequencer step
Apu_process(a) ==
    With(IF a.div_apu % 8 = 0 THEN Apu_envelope(a) ELSE a, LAMBDA a1 :
    With(IF a1.div_apu % 2 = 0 THEN Apu_length(a1) ELSE a1, LAMBDA a2 :
         IF a2.div_apu % 4 = 0 THEN Apu_sweep(a2) ELSE a2))

\* a period counter step: the counter, and whether it ran out
PeriodStep(counter) == (counter + 1) % 2048

\* the wave channel is clocked twice per tick
Apu_wave_step(a) ==
    LET c == PeriodStep(a.ch3_period_counter)
    IN IF c = 0
       THEN [a EXCEPT !.ch3_period_counter = (a.nr34 % 8) * 256 + a.nr33,
                      !.ch3_sample_counter = (a.ch3_sample_counter + 1) % 32]
       ELSE [a EXCEPT !.ch3_period_counter = c]

\* the noise divider overflows its u8 (1 << clock_shift, clock_divider * ..):
\* the overflow-checked build aborts
Apu_tick_panics(a) ==
    LET clock_shift == a.nr43 \div 16
        clock_divider == a.nr43 % 8
    IN clock_shift >= 8 \/ clock_divider * Pow2(clock_shift) > 255

\* the number of ticks between two steps of the noise LFSR
NoiseTickMaxCount(nr43) ==
    LET clock_shift == nr43 \div 16
        clock_divider == nr43 % 8
        tick_frequency == IF clock_divider = 0 THEN (262144 * 2) \div Pow2(clock_shift)
                          ELSE 262144 \div (clock_divider * Pow2(clock_shift))
    IN APU_FREQUENCY \div tick_frequency

\* one step of the LFSR (the short mode test `nr43 & (1 << 3) == 1` never holds)
LfsrStep(lsfr) ==
    LET next_bit == IF Bit(lsfr, 0) = Bit(lsfr, 1) THEN 1 ELSE 0
    IN ((lsfr % 32768) + next_bit * 32768) \div 2

\* the mixing loop: one stereo sample pair per elapsed step
RECURSIVE Apu_mix(_)
Apu_mix(a) ==
    IF a.accumulator > ACC_STEP
    THEN Apu_mix([a EXCEPT !.buffer_len = a.buffer_len + 2,
                           !.accumulator = a.accumulator - ACC_STEP])
    ELSE a

\* Apu::tick
Apu_tick(a0, r) ==
    With(IF Test(a0.div_prev, 4) /\ ~Test(r.div, 4)
         THEN Apu_process([a0 EXCEPT !.div_apu = Wrap8(a0.div_apu + 1)])
         ELSE a0, LAMBDA a1 :
    With(LET c1 == PeriodStep(a1.ch1_period_counter)
         IN IF c1 = 0
            THEN [a1 EXCEPT !.ch1_period_counter = (a1.nr14 % 8) * 256 + a1.nr13,
                            !.ch1_duty_counter = (a1.ch1_duty_counter + 1) % 8]
            ELSE [a1 EXCEPT !.ch1_period_counter = c1], LAMBDA a2 :
    With(LET c2 == PeriodStep(a2.ch2_period_counter)
         IN IF c2 = 0
            THEN [a2 EXCEPT !.ch2_period_counter = (a2.nr24 % 8) * 256 + a2.nr23,
                            !.ch2_duty_counter = (a2.ch2_duty_counter + 1) % 8]
            ELSE [a2 EXCEPT !.ch2_period_counter = c2], LAMBDA a3 :
    With(Apu_wave_step(Apu_wave_step(a3)), LAMBDA a4 :
    With(LET t == (a4.ch4_tick_counter + 1) % NoiseTickMaxCount(a4.nr43)
         IN IF t = 0
            THEN [a4 EXCEPT !.ch4_tick_counter = t, !.ch4_lsfr = LfsrStep(a4.ch4_lsfr)]
            ELSE [a4 EXCEPT !.ch4_tick_counter = t], LAMBDA a5 :
    With(Apu_mix(a5), LAMBDA a6 :
         [a6 EXCEPT !.accumulator = a6.accumulator + ACC_TICK, !.div_prev = r.div]))))))


-----------------------------------------------------------------------------
(* GameBoy (gameboy/mod.rs).                                               *)

\* variant of TCycles that gives the PPU one dot per machine cycle
TCycles_one(m_cycles) == m_cycles

\* MCycles::t_cycles
TCycles(m_cycles) == m_cycles * 4

\* the loop `for _ in 0..t_cycles { ppu.tick(..) }`: n more calls; acc carries
\* the machine, the calls made, the OR of the results, and whether a call took
\* the dot counter from its last value back to zero
RECURSIVE PpuLoop(_, _)
PpuLoop(acc, n) ==
    IF n = 0 \/ acc.s.failed THEN acc
    ELSE IF Ppu_tick_panics(acc.s.ppu, acc.s.io)
         THEN [acc EXCEPT !.s = Panic(acc.s), !.calls = acc.calls + 1]
    ELSE
      With(Ppu_tick(acc.s.ppu, acc.s.io), LAMBDA t :
           PpuLoop([s |-> [acc.s EXCEPT !.ppu = t.ppu, !.io = t.io],
                    calls |-> acc.calls + 1,
                    result |-> acc.result \/ t.result,
                    wrapped |-> acc.wrapped \/ (acc.s.ppu.dot_counter # 0 /\ t.ppu.dot_counter = 0)],
                   n - 1))

\* the loop `for _ in 0..m_cycles { apu.tick(..) }`
RECURSIVE ApuLoop(_, _)
ApuLoop(acc, n) ==
    IF n = 0 \/ acc.s.failed THEN acc
    ELSE IF Apu_tick_panics(acc.s.apu)
         THEN [acc EXCEPT !.s = Panic(acc.s), !.calls = acc.calls + 1]
    ELSE ApuLoop([s |-> [acc.s EXCEPT !.apu = Apu_tick(acc.s.apu, acc.s.io)],
                  calls |-> acc.calls + 1], n - 1)

\* GameBoy::tick: the machine it leaves, its result, and what it called
GameBoy_tick(s) ==
    IF ~s.loaded
    THEN [s |-> s, result |-> FALSE, cpu_calls |-> 0, m |-> 0, ppu_calls |-> 0,
          apu_calls |-> 0, wrapped |-> FALSE, path |-> "none"]
    ELSE
      With(Cpu_execute(s), LAMBDA c :
      With(PpuLoop([s |-> c.s, calls |-> 0, result |-> FALSE, wrapped |-> FALSE],
                   TCycles(c.m)), LAMBDA p :
      With(ApuLoop([s |-> p.s, calls |-> 0], c.m), LAMBDA a :
           [s |-> a.s, result |-> p.result, cpu_calls |-> 1, m |-> c.m,
            ppu_calls |-> p.calls, apu_calls |-> a.calls, wrapped |-> p.wrapped,
            path |-> c.path])))

\* Buttons: the shadow nibble and the bit of each button
Buttons == {"Right", "Left", "Up", "Down", "B", "A", "Select", "Start"}

ButtonIsDirection(button) == button \in {"Right", "Left", "Up", "Down"}

ButtonBit(button) ==
    CASE button \in {"Right", "B"} -> 0
      [] button \in {"Left", "A"} -> 1
      [] button \in {"Up", "Select"} -> 2
      [] OTHER -> 3

\* variant of GameBoy_button_pressed that clears the bit in both nibbles
GameBoy_button_pressed_both(s, button) ==
    [s EXCEPT !.io.joyp_directions = AndNot8(s.io.joyp_directions, Pow2(ButtonBit(button))),
              !.io.joyp_actions = AndNot8(s.io.joyp_actions, Pow2(ButtonBit(button)))]

\* GameBoy::button_pressed
GameBoy_button_pressed(s, button) ==
    IF ButtonIsDirection(button)
    THEN [s EXCEPT !.io.joyp_directions = AndNot8(s.io.joyp_directions, Pow2(ButtonBit(button)))]
    ELSE [s EXCEPT !.io.joyp_actions = AndNot8(s.io.joyp_actions, Pow2(ButtonBit(button)))]

\* GameBoy::button_released
GameBoy_button_released(s, button) ==
    IF ButtonIsDirection(button)
    THEN [s EXCEPT !.io.joyp_directions = Or8(s.io.joyp_directions, Pow2(ButtonBit(button)))]
    ELSE [s EXCEPT !.io.joyp_actions = Or8(s.io.joyp_actions, Pow2(ButtonBit(button)))]

-----------------------------------------------------------------------------
(* The machine as the state variables hold it.                             *)

Machine ==
    [cpu |-> cpu, io |-> io, bus |-> bus, ppu |-> ppu, apu |-> apu,
     loaded |-> gb.loaded, failed |-> gb.failed]

\* no Cartridge has been constructed: the engine's Bus holds the image itself
NoCartridge == <<>>

\* the variables take the machine s
Becomes(s) ==
    /\ cpu' = s.cpu
    /\ io' = s.io
    /\ bus' = s.bus
    /\ ppu' = s.ppu
    /\ apu' = s.apu
    /\ gb' = [loaded |-> s.loaded, failed |-> s.failed]
    /\ cart' = cart

\* the variables hold the machine s
Holds(s) ==
    /\ cpu = s.cpu
    /\ io = s.io
    /\ bus = s.bus
    /\ ppu = s.ppu
    /\ apu = s.apu
    /\ gb = [loaded |-> s.loaded, failed |-> s.failed]
    /\ cart = NoCartridge

\* an image of the given ROM and RAM size codes, complete and of a supported type
Image(code, handler, rom_size_type, ram_size_type) ==
    [len |-> BankCount(rom_size_type) * 16384, cartridge_type |-> 1,
     rom_size_type |-> rom_size_type, ram_size_type |-> ram_size_type,
     code |-> code, handler |-> handler]

\* LD A,v ; LDH (0xFF00+port),A
Out(port, v) == <<LD_A_D8, v, LDH_A8_A, port>>


-----------------------------------------------------------------------------
(* SpecPpu: the PPU driven dot by dot from the power-up state (LCDC =      *)
(* 0x91, the LCD enabled).  obs counts the Ppu::tick calls, the calls      *)
(* since the last frame-ready result, and the frame-ready results.         *)

MaxPpuTicks == 161000

InitPpu ==
    /\ Holds(GameBoy_new)
    /\ obs = [op |-> "init", ticks |-> 0, since |-> 0, frames |-> 0, result |-> FALSE]

PpuTick ==
    /\ ~gb.failed
    /\ obs.ticks < MaxPpuTicks
    /\ IF Ppu_tick_panics(ppu, io)
       THEN /\ gb' = [gb EXCEPT !.failed = TRUE]
            /\ obs' = [obs EXCEPT !.op = "ppu_tick", !.ticks = obs.ticks + 1, !.result = FALSE]
            /\ UNCHANGED <<ppu, io>>
       ELSE \E t \in {Ppu_tick(ppu, io)} :
               /\ ppu' = t.ppu
               /\ io' = t.io
               /\ obs' = [op |-> "ppu_tick",
                          ticks |-> obs.ticks + 1,
                          since |-> IF obs.result THEN 1 ELSE obs.since + 1,
                          frames |-> obs.frames + (IF t.result THEN 1 ELSE 0),
                          result |-> t.result]
               /\ UNCHANGED gb
    /\ UNCHANGED <<cpu, bus, apu, cart>>

NextPpu == PpuTick

SpecPpu == InitPpu /\ [][NextPpu]_vars

\* C5: exactly 70224 Ppu.tick calls separate successive frame-ready results:
\* counting the calls made after a frame-ready result, the next frame-ready
\* result is returned by the 70224th of them, neither earlier nor later.
C5_FramePeriod ==
    /\ (obs.result /\ obs.frames >= 2) => obs.since = FRAME_DOTS
    /\ (~obs.result /\ obs.frames >= 1) => obs.since < FRAME_DOTS


-----------------------------------------------------------------------------
(* SpecCpu: Cpu::tick on a loaded engine.  Init is the engine after the    *)
(* load of one of a family of programs:                                    *)
(*   - interrupt programs set SP, IF and IE and run with IME on, off (DI)  *)
(*     or switched back on (DI .. EI), then HALT;                          *)
(*   - timer programs clear IF, start the timer and HALT;                  *)
(*   - DMA programs start an OAM DMA transfer, with or without a timer     *)
(*     interrupt that becomes pending in the tick that starts it.          *)
(* obs records the last tick: what it returned, the branch it took, the    *)
(* opcode it fetched, the CPU and interrupt registers before it, the run   *)
(* of idle halted ticks up to it and before it, and the run of DMA ticks.  *)

\* ticks other than DMA copies per behaviour
MaxInstr == 30

CpuStacks == {65534, 53248}
IeValues == {0, 1, 2, 4, 5, 10, 16, 21, 24, 30, 31}
IfValues == 0..31
ImeModes == {"on", "di", "di_ei"}
HandlerBytes == {NOP, RETI}
TmaValues == {253, 255}
DmaPages == {0, 1, 128, 192, 223}

InterruptProgram(mode, sp, ie, ifv) ==
    (IF mode = "on" THEN <<>> ELSE <<DI>>)
    \o <<LD_SP_D16, sp % 256, sp \div 256>>
    \o Out(15, ifv) \o Out(255, ie)
    \o (IF mode = "di_ei" THEN <<EI>> ELSE <<>>)
    \o <<NOP, HALT, NOP, NOP>>

TimerProgram(mode, ie, tma) ==
    (IF mode = "on" THEN <<>> ELSE <<DI>>)
    \o Out(15, 0) \o Out(255, ie) \o Out(6, tma) \o Out(7, 5)
    \o <<HALT, NOP, NOP, NOP>>

DmaProgram(page, timer) ==
    (IF timer THEN Out(255, 4) \o Out(6, 254) \o Out(7, 5) ELSE <<>>)
    \o Out(70, page)
    \o <<NOP, HALT, NOP>>

CpuPrograms ==
    {InterruptProgram(mode, sp, ie, ifv) :
        mode \in ImeModes, sp \in CpuStacks, ie \in IeValues, ifv \in IfValues}
    \cup {TimerProgram(mode, ie, tma) : mode \in {"on", "di"}, ie \in {0, 4}, tma \in TmaValues}
    \cup {DmaProgram(page, timer) : page \in DmaPages, timer \in BOOLEAN}

CpuImages == {Image(code, handler, 0, 0) : code \in CpuPrograms, handler \in HandlerBytes}

\* the CPU and interrupt registers a tick starts from
Snapshot(s) ==
    [registers |-> s.cpu.registers, ime |-> s.cpu.interrupts_master_enable,
     halted |-> s.cpu.halted, ie |-> s.io.interrupt_enable, iflag |-> s.io.interrupt_flag,
     dma_counter |-> s.io.dma_counter, dma |-> s.io.dma]

InitCpu ==
    /\ \E img \in CpuImages : Holds(GameBoy_load(GameBoy_new, img))
    /\ obs = [op |-> "load", n |-> 0, m |-> 0, path |-> "none", opcode |-> -1,
              pre |-> Snapshot(GameBoy_new), idle |-> 0, idle_before |-> 0, dma_run |-> 0]

CpuTick ==
    /\ gb.loaded /\ ~gb.failed
    /\ obs.n < MaxInstr \/ io.dma_counter > 0
    /\ NextOpcodeModelled(Machine)
    /\ \E c \in {Cpu_execute(Machine)} :
          /\ Becomes(c.s)
          /\ obs' = [op |-> "tick",
                     n |-> IF c.path = "dma" THEN obs.n ELSE obs.n + 1,
                     m |-> c.m, path |-> c.path, opcode |-> c.opcode,
                     pre |-> Snapshot(Machine),
                     idle |-> IF c.path = "halted" THEN obs.idle + 1 ELSE 0,
                     idle_before |-> obs.idle,
                     dma_run |-> IF c.path = "dma" THEN obs.dma_run + 1 ELSE 0]

NextCpu == CpuTick

SpecCpu == InitCpu /\ [][NextCpu]_vars

\* IE & IF before the tick
PendingBefore == And8(obs.pre.ie, obs.pre.iflag)

\* the tick obs describes could dispatch: IME set, no DMA in progress
DispatchTick ==
    obs.op = "tick" /\ ~gb.failed /\ obs.pre.ime /\ obs.pre.dma_counter = 0

\* C1: on a tick with IME set, no DMA and more than one bit in IE & IF, the
\* handler of the lowest-numbered pending bit is entered and IF loses that
\* bit and no other.
C1_InterruptPriority ==
    (DispatchTick /\ \E j, k \in 0..4 : j # k /\ Test(PendingBefore, j) /\ Test(PendingBefore, k)) =>
        LET k == LowestBit(PendingBefore)
        IN /\ cpu.registers.pc = 64 + 8 * k
           /\ io.interrupt_flag = obs.pre.iflag - Pow2(k)

\* a dispatch of TIMER while SERIAL and JOYPAD are pending too
C1_Witness ==
    /\ DispatchTick
    /\ PendingBefore = 28
    /\ cpu.registers.pc = 80
    /\ io.interrupt_flag = obs.pre.iflag - 4

\* C2: a dispatch pushes the old PC (low byte at SP, high byte at SP+1) with
\* SP lowered by 2, jumps to 0x40 + 8k, clears bit k of IF, fetches no
\* instruction, returns 5 machine cycles and leaves IME set.
C2_InterruptDispatch ==
    (DispatchTick /\ PendingBefore # 0) =>
        LET k == LowestBit(PendingBefore)
            sp == cpu.registers.sp
        IN /\ sp = Wrap16(obs.pre.registers.sp - 2)
           /\ Bus_mem_read(Machine, sp) = obs.pre.registers.pc % 256
           /\ Bus_mem_read(Machine, Wrap16(sp + 1)) = obs.pre.registers.pc \div 256
           /\ cpu.registers.pc = 64 + 8 * k
           /\ ~Test(io.interrupt_flag, k)
           /\ obs.path = "interrupt" /\ obs.opcode = -1
           /\ obs.m = 5
           /\ cpu.interrupts_master_enable

\* a dispatch of LCD_STAT from an address whose two bytes differ
C2_Witness ==
    /\ DispatchTick
    /\ PendingBefore # 0
    /\ LowestBit(PendingBefore) = 1
    /\ obs.pre.registers.pc > 256
    /\ obs.pre.registers.pc % 256 # obs.pre.registers.pc \div 256
    /\ obs.m = 5
    /\ cpu.registers.pc = 72

\* one step of the DMA statement of C3
C3_Step ==
    LET i == DMA_LENGTH - io.dma_counter
    IN /\ (obs'.path = "instruction" /\ obs'.opcode = LDH_A8_A
              /\ Bus_mem_read(Machine, Wrap16(cpu.registers.pc + 1)) = 70) =>
                 (io'.dma_counter = 160 /\ io'.dma = cpu.registers.a)
       /\ (io.dma_counter > 0 /\ ~gb'.failed) =>
             /\ obs'.path = "dma" /\ obs'.opcode = -1 /\ obs'.m = 1
             /\ io'.dma_counter = io.dma_counter - 1
             /\ obs'.dma_run = i + 1
             /\ MemGet(ppu'.oam, i) = Bus_mem_read(Machine, io.dma * 256 + i)
             /\ \A j \in (0..159) \ {i} : MemGet(ppu'.oam, j) = MemGet(ppu.oam, j)
             /\ cpu' = cpu
       /\ (io.dma_counter = 1 /\ ~gb'.failed) =>
             /\ io'.dma_counter = 0
             /\ obs'.dma_run = 160
             /\ \A j \in 0..159 : MemGet(ppu'.oam, j) = Bus_mem_read(Machine', io.dma * 256 + j)
       /\ io.dma_counter = 0 => obs'.path # "dma"

C4_Halt ==
    (obs.op = "tick" /\ ~gb.failed /\ obs.pre.halted /\ obs.pre.dma_counter = 0) =>
        /\ PendingBefore = 0 =>
              /\ obs.m = 1
              /\ obs.path = "halted"
              /\ cpu.registers = obs.pre.registers
        /\ (PendingBefore # 0 /\ ~obs.pre.ime) =>
              /\ obs.path = "instruction"
              /\ obs.opcode = RomByte(bus.program, obs.pre.registers.pc)
              /\ cpu.registers.sp = obs.pre.registers.sp
              /\ cpu.registers.pc = Wrap16(obs.pre.registers.pc + 1)
              /\ And8(io.interrupt_flag, obs.pre.iflag) = obs.pre.iflag
              /\ ~cpu.halted
              /\ ~cpu.interrupts_master_enable

\* a wake-up by the timer after idle halted ticks, IME clear
C4_Witness ==
    /\ obs.op = "tick" /\ obs.pre.halted /\ ~obs.pre.ime
    /\ PendingBefore = 4
    /\ obs.idle_before >= 2
    /\ obs.path = "instruction"
    /\ ~cpu.halted

-----------------------------------------------------------------------------
(* SpecEngine: GameBoy::tick on a loaded engine.  Init is the engine after *)
(* GameBoy::load of a small program; obs records what the last tick        *)
(* called, the machine cycles run so far and the dot counter it started    *)
(* from.  The machine cycles are capped a little past the first wrap of    *)
(* the dot counter.                                                        *)

MaxEngineCycles == 22600

\* a spin, a timer-interrupt program, an OAM DMA followed by HALT, and a
\* program that switches the LCD off and spins
EnginePrograms ==
    { <<JP_A16, 0, 1>>,
      TimerProgram("on", 4, 253),
      DmaProgram(192, FALSE),
      Out(64, 17) \o <<JP_A16, 4, 1>> }

EngineImages == {Image(code, RETI, 0, 0) : code \in EnginePrograms}

InitEngine ==
    /\ \E img \in EngineImages : Holds(GameBoy_load(GameBoy_new, img))
    /\ obs = [op |-> "load", cycles |-> 0, m |-> 0, cpu_calls |-> 0, ppu_calls |-> 0,
              apu_calls |-> 0, wrapped |-> FALSE, result |-> FALSE, path |-> "none",
              dot_before |-> 0]

EngineTick ==
    /\ gb.loaded /\ ~gb.failed
    /\ obs.cycles < MaxEngineCycles
    /\ NextOpcodeModelled(Machine)
    /\ \E t \in {GameBoy_tick(Machine)} :
          /\ Becomes(t.s)
          /\ obs' = [op |-> "tick", cycles |-> obs.cycles + t.m, m |-> t.m,
                     cpu_calls |-> t.cpu_calls, ppu_calls |-> t.ppu_calls,
                     apu_calls |-> t.apu_calls, wrapped |-> t.wrapped,
                     result |-> t.result, path |-> t.path,
                     dot_before |-> ppu.dot_counter]

NextEngine == EngineTick

SpecEngine == InitEngine /\ [][NextEngine]_vars

\* C6: a GameBoy.tick on a loaded engine makes one Cpu.tick call returning m
\* machine cycles, then 4*m Ppu.tick calls and m Apu.tick calls, and returns
\* true exactly when one of those Ppu.tick calls took the dot counter back to
\* zero (the counter then ends below the value the tick started from).
C6_EngineStep ==
    (obs.op = "tick" /\ ~gb.failed) =>
        /\ obs.cpu_calls = 1
        /\ obs.m \in 1..6
        /\ obs.ppu_calls = 4 * obs.m
        /\ obs.apu_calls = obs.m
        /\ obs.result <=> obs.wrapped
        /\ obs.wrapped <=> ppu.dot_counter < obs.dot_before

\* a tick of four machine cycles whose sixteen dots include the wrap
C6_Witness ==
    /\ obs.op = "tick" /\ ~gb.failed
    /\ obs.m = 4 /\ obs.ppu_calls = 16 /\ obs.apu_calls = 4
    /\ obs.result
    /\ obs.dot_before > 0
    /\ ppu.dot_counter < obs.dot_before

-----------------------------------------------------------------------------
(* SpecBus: the bus of a loaded engine under reads and writes, as the CPU  *)
(* issues them through Mem::mem_read and Mem::mem_write.  obs records the  *)
(* last access and the one before it.                                      *)

MaxBusOps == 3

\* four ROM banks; no cartridge RAM, one bank, four banks
BusImages == {Image(<<NOP>>, NOP, 1, ram_size_type) : ram_size_type \in {0, 2, 3}}

\* the first and last address of the regions, and SCY among the registers
BusAddrs ==
    {0, 8192, 32768, 40960, 49152, 56831, 57344, 65023, 65024, 65183, 65184, 65279,
     65346, 65408}

BusWrites == {<<addr, 91>> : addr \in BusAddrs} \cup {<<0, 10>>}

NoAccess == [op |-> "none", addr |-> 0, value |-> 0]

InitBus ==
    /\ \E img \in BusImages : Holds(GameBoy_load(GameBoy_new, img))
    /\ obs = [op |-> "load", addr |-> 0, value |-> 0, prev |-> NoAccess, n |-> 0]

BusWrite(addr, value) ==
    /\ gb.loaded /\ ~gb.failed
    /\ obs.n < MaxBusOps
    /\ Becomes(Bus_write(Machine, addr, value))
    /\ obs' = [op |-> "write", addr |-> addr, value |-> value,
               prev |-> [op |-> obs.op, addr |-> obs.addr, value |-> obs.value],
               n |-> obs.n + 1]

BusRead(addr) ==
    /\ gb.loaded /\ ~gb.failed
    /\ obs.n < MaxBusOps
    /\ Becomes(AfterRead(Machine, addr))
    /\ obs' = [op |-> "read", addr |-> addr, value |-> Bus_read(Machine, addr),
               prev |-> [op |-> obs.op, addr |-> obs.addr, value |-> obs.value],
               n |-> obs.n + 1]

NextBus ==
    \/ \E w \in BusWrites : BusWrite(w[1], w[2])
    \/ \E addr \in BusAddrs : BusRead(addr)

SpecBus == InitBus /\ [][NextBus]_vars

\* the regions the round trip is stated for
IsVram(addr) == addr \in 32768..40959
IsExternalRam(addr) == addr \in 40960..49151
IsWram(addr) == addr \in 49152..57343
IsEcho(addr) == addr \in 57344..65023
IsOam(addr) == addr \in 65024..65183
IsProhibited(addr) == addr \in 65184..65279
IsHram(addr) == addr \in 65408..65534

\* a read that directly follows a write of the same address
ReadAfterWrite ==
    /\ obs.op = "read" /\ ~gb.failed
    /\ obs.prev.op = "write" /\ obs.prev.addr = obs.addr

\* C9: a bus write of v to video RAM, enabled external RAM, work RAM, echo
\* RAM, OAM, high RAM or a plain read/write register (SCY), directly followed
\* by a read of the same address, reads v.
C9_RoundTrip ==
    (/\ ReadAfterWrite
     /\ \/ IsVram(obs.addr) \/ IsWram(obs.addr) \/ IsEcho(obs.addr)
        \/ IsOam(obs.addr) \/ IsHram(obs.addr) \/ obs.addr = 65346
        \/ IsExternalRam(obs.addr) /\ bus.ram_enable)
    => obs.value = obs.prev.value

\* the round trip outside OAM
C9_RoundTripExceptOam == IsOam(obs.addr) \/ C9_RoundTrip

\* a byte written to OAM and read back
C9_OamReadBack ==
    /\ ReadAfterWrite /\ IsOam(obs.addr)
    /\ obs.prev.value # 0
    /\ MemGet(ppu.oam, obs.addr - 65024) = obs.prev.value

EchoSamples == {57344, 61000, 65023}

ProhibitedSamples == {65184, 65279}

\* C10: a read in 0xE000..0xFDFF equals the read 0x2000 below it, a write
\* through either address is read back through the other, and a read in
\* 0xFEA0..0xFEFF gives 0xFF.
C10_EchoRam ==
    ~gb.failed =>
        /\ \A addr \in EchoSamples :
              Bus_mem_read(Machine, addr) = Bus_mem_read(Machine, addr - 8192)
        /\ \A addr \in ProhibitedSamples : Bus_mem_read(Machine, addr) = 255
        /\ (obs.op = "write" /\ IsEcho(obs.addr)) =>
              Bus_mem_read(Machine, obs.addr - 8192) = obs.value
        /\ (obs.op = "write" /\ IsEcho(obs.addr + 8192)) =>
              Bus_mem_read(Machine, obs.addr + 8192) = obs.value
        /\ (obs.op = "read" /\ obs.prev.op = "write" /\ IsEcho(obs.addr)
                /\ obs.prev.addr \in {obs.addr, obs.addr - 8192}) =>
              obs.value = obs.prev.value
        /\ (obs.op = "read" /\ obs.prev.op = "write" /\ IsEcho(obs.prev.addr)
                /\ obs.addr = obs.prev.addr - 8192) =>
              obs.value = obs.prev.value
        /\ (obs.op = "read" /\ IsProhibited(obs.addr)) => obs.value = 255

\* a byte written at 0xDDFF and read at 0xFDFF, after a write to the
\* prohibited region
C10_Witness ==
    /\ obs.op = "read" /\ ~gb.failed
    /\ obs.addr = 65023 /\ obs.value = 91
    /\ obs.prev = [op |-> "write", addr |-> 56831, value |-> 91]
    /\ Bus_mem_read(Machine, 65184) = 255

-----------------------------------------------------------------------------
(* Spec: the life cycle of an engine.  Init is GameBoy::new(); the images  *)
(* offered to load are complete or cut short, of a cartridge type with or  *)
(* without a mapper; between loads the engine ticks, the program writes to *)
(* the bus and buttons are pressed and released.  obs records the last     *)
(* operation, the image it was given, the machine before it and its        *)
(* result.                                                                 *)

MaxOps == 5

\* the cartridge types Cartridge::load has a mapper for
Cartridge_mapper_supported(cartridge_type) == cartridge_type \in {0, 8, 9, 1, 2, 3}

ImageA == Image(<<DI, LD_A_D8, 7, HALT>>, NOP, 1, 2)

ImageB == Image(<<LD_SP_D16, 0, 208, NOP>>, RETI, 0, 0)

\* two complete images; ImageA cut inside its header and after its first
\* bank; ImageB with the MBC2 cartridge type
LoadImages ==
    {ImageA, ImageB,
     [ImageA EXCEPT !.len = 256],
     [ImageA EXCEPT !.len = 16384],
     [ImageB EXCEPT !.cartridge_type = 5]}

\* work RAM, high RAM, video RAM, OAM, the ROM bank register, RAM enable, the
\* DMA register
ProgramWrites ==
    {<<49152, 91>>, <<65408, 91>>, <<32768, 91>>, <<65024, 91>>, <<8192, 2>>, <<0, 10>>,
     <<65350, 192>>}

PressedButtons == {"Right", "Start"}

Init ==
    /\ Holds(GameBoy_new)
    /\ obs = [op |-> "new", img |-> NoImage, pre |-> GameBoy_new, result |-> FALSE, n |-> 0]

Load(img) ==
    /\ ~gb.failed
    /\ obs.n < MaxOps
    /\ Becomes(GameBoy_load(Machine, img))
    /\ obs' = [op |-> "load", img |-> img, pre |-> Machine, result |-> FALSE, n |-> obs.n + 1]

Tick ==
    /\ ~gb.failed
    /\ obs.n < MaxOps
    /\ gb.loaded => NextOpcodeModelled(Machine)
    /\ \E t \in {GameBoy_tick(Machine)} :
          /\ Becomes(t.s)
          /\ obs' = [op |-> "tick", img |-> NoImage, pre |-> Machine, result |-> t.result,
                     n |-> obs.n + 1]

ProgramWrite(addr, value) ==
    /\ gb.loaded /\ ~gb.failed
    /\ obs.n < MaxOps
    /\ Becomes(Bus_write(Machine, addr, value))
    /\ obs' = [op |-> "write", img |-> NoImage, pre |-> Machine, result |-> FALSE,
               n |-> obs.n + 1]

ButtonPressed(button) ==
    /\ ~gb.failed
    /\ obs.n < MaxOps
    /\ Becomes(GameBoy_button_pressed(Machine, button))
    /\ obs' = [op |-> "pressed", img |-> NoImage, pre |-> Machine, result |-> FALSE,
               n |-> obs.n + 1]

ButtonReleased(button) ==
    /\ ~gb.failed
    /\ obs.n < MaxOps
    /\ Becomes(GameBoy_button_released(Machine, button))
    /\ obs' = [op |-> "released", img |-> NoImage, pre |-> Machine, result |-> FALSE,
               n |-> obs.n + 1]

Next ==
    \/ \E img \in LoadImages : Load(img)
    \/ Tick
    \/ \E w \in ProgramWrites : ProgramWrite(w[1], w[2])
    \/ \E button \in PressedButtons : ButtonPressed(button)
    \/ \E button \in PressedButtons : ButtonReleased(button)

Spec == Init /\ [][Next]_vars

\* C7: whatever ticks, bus writes and button events came before, a load of
\* image R that completes leaves the engine as a load of R into a new engine
\* does: WRAM, HRAM, VRAM and OAM zeroed, the I/O and CPU registers at their
\* power-up values, IME, halt, the DMA counter, the bank registers, RAM
\* enable, PPU and APU as constructed.
C7_LoadResets ==
    (obs.op = "load" /\ ~gb.failed) =>
        /\ Machine = GameBoy_load(GameBoy_new, obs.img)
        /\ gb.loaded
        /\ bus.wram = EmptyMem /\ bus.hram = EmptyMem
        /\ ppu.vram = EmptyMem /\ ppu.oam = EmptyMem
        /\ io = IoRegisters_new
        /\ cpu.registers = CpuRegisters_default
        /\ cpu.interrupts_master_enable /\ ~cpu.halted
        /\ io.dma_counter = 0
        /\ bus.rom_current_bank = 1 /\ bus.ram_current_bank = 0
        /\ bus.banking_mode = "Simple" /\ ~bus.ram_enable
        /\ ppu = Ppu_new
        /\ apu = Apu_new

\* a load into an engine that had run: work RAM written, CPU and PPU moved on
C7_Witness ==
    /\ obs.op = "load" /\ ~gb.failed
    /\ obs.pre.loaded
    /\ obs.pre.bus.wram # EmptyMem
    /\ obs.pre.cpu # Cpu_new
    /\ obs.pre.ppu # Ppu_new
    /\ obs.pre.bus.program # obs.img

\* an image that is cut short or names a cartridge type without a mapper
Rejected(img) ==
    \/ img.len < BankCount(img.rom_size_type) * 16384
    \/ ~Cartridge_mapper_supported(img.cartridge_type)

\* C8: a load of a truncated image or of an unsupported cartridge type does
\* not abort and leaves the engine as it was; a tick of an engine that is
\* not loaded returns false and changes nothing.
C8_FailedLoad ==
    /\ (obs.op = "load" /\ Rejected(obs.img)) => (~gb.failed /\ Machine = obs.pre)
    /\ (obs.op = "tick" /\ ~obs.pre.loaded) => (~obs.result /\ Machine = obs.pre)

\* the part of C8 about an engine that was never loaded
C8_UnloadedTick ==
    (obs.op = "tick" /\ ~obs.pre.loaded) => (~obs.result /\ Machine = obs.pre /\ ~gb.loaded)

\* a load of the MBC2 image that completes and leaves the engine loaded
C8_UnsupportedAccepted ==
    /\ obs.op = "load" /\ ~Cartridge_mapper_supported(obs.img.cartridge_type)
    /\ ~gb.failed /\ gb.loaded /\ ~obs.pre.loaded

-----------------------------------------------------------------------------
(* Cartridge (gameboy/cartridge.rs): the image cut into ROM banks, the     *)
(* external RAM banks and the MBC1 control registers.  rom_banks is kept   *)
(* as the image and the number of banks cut from it, ram_banks as one      *)
(* memory indexed bank * 0x2000 + offset.  failed = TRUE is a panic.       *)

\* the mapper of a cartridge type code; any other code is unimplemented!()
\* or unreachable!()
Cartridge_mapper(cartridge_type) ==
    CASE cartridge_type \in {0, 8, 9} -> "None"
      [] cartridge_type \in {1, 2, 3} -> "MBC1"
      [] OTHER -> "panic"

Cartridge_panicked ==
    [program |-> NoImage, mapper |-> "None", banking_mode |-> "Simple",
     cartridge_rom_size_type |-> 0, rom_current_bank |-> 1,
     rom_secondary_bank_register |-> 0, rom_bank_count |-> 0,
     cartridge_ram_size_type |-> 0, ram_enable |-> FALSE, ram_current_bank |-> 0,
     ram_bank_count |-> 0, ram_banks |-> EmptyMem, failed |-> TRUE]

\* Cartridge::load
Cartridge_load(img) ==
    IF \/ img.len <= OFFSET_CHECKSUM
       \/ Cartridge_mapper(img.cartridge_type) = "panic"
       \/ WholeBanks(img) < BankCount(img.rom_size_type)
       \/ img.ram_size_type \notin RamSizeCodes
    THEN Cartridge_panicked
    ELSE [program |-> img,
          mapper |-> Cartridge_mapper(img.cartridge_type),
          banking_mode |-> "Simple",
          cartridge_rom_size_type |-> img.rom_size_type,
          rom_current_bank |-> 1,
          rom_secondary_bank_register |-> 0,
          rom_bank_count |-> BankCount(img.rom_size_type),
          cartridge_ram_size_type |-> img.ram_size_type,
          ram_enable |-> FALSE,
          ram_current_bank |-> 0,
          ram_bank_count |-> (cartridge_ram_size_kib(img.ram_size_type) * 1024) \div 8192,
          ram_banks |-> EmptyMem,
          failed |-> FALSE]

IsCartridgeRom(addr) == addr \in 0..32767

IsCartridgeRam(addr) == addr \in 40960..49151

\* the RAM bank an access to 0xA000..0xBFFF uses
Cartridge_ram_bank(c) == IF c.banking_mode = "Simple" THEN 0 ELSE c.ram_current_bank

\* Cartridge::mem_read aborts: an address outside the cartridge, or a bank
\* index out of bounds
Cartridge_read_panics(c, addr) ==
    CASE addr \in 0..16383 -> c.rom_bank_count = 0
      [] addr \in 16384..32767 ->
            IF c.mapper = "None" THEN c.rom_bank_count < 2
            ELSE c.rom_current_bank >= c.rom_bank_count
      [] IsCartridgeRam(addr) ->
            IF c.mapper = "None" THEN c.ram_bank_count = 0
            ELSE c.ram_enable /\ Cartridge_ram_bank(c) >= c.ram_bank_count
      [] OTHER -> TRUE

Cartridge_mem_read_mbc_none(c, addr) ==
    CASE addr \in 0..16383 -> RomByte(c.program, addr)
      [] addr \in 16384..32767 -> RomByte(c.program, 16384 + (addr - 16384))
      [] OTHER -> MemGet(c.ram_banks, addr - 40960)

Cartridge_mem_read_mbc1(c, addr) ==
    CASE addr \in 0..16383 -> RomByte(c.program, addr)
      [] addr \in 16384..32767 ->
            RomByte(c.program, c.rom_current_bank * 16384 + (addr - 16384))
      [] OTHER ->
            IF ~c.ram_enable THEN 255
            ELSE MemGet(c.ram_banks, Cartridge_ram_bank(c) * 8192 + (addr - 40960))

Cartridge_mem_read(c, addr) ==
    IF c.mapper = "None" THEN Cartridge_mem_read_mbc_none(c, addr)
    ELSE Cartridge_mem_read_mbc1(c, addr)

\* variant of RamGate that compares the whole byte
RamGate_whole_byte(value) == value = 10

\* value & 0x0f == 0x0a
RamGate(value) == And8(value, 15) = 10

\* variant of Mbc1RomBank that leaves a request for bank 0 as it is
Mbc1RomBank_zero_kept(c, value) ==
    Or8(c.rom_secondary_bank_register * 32, And8(value, BankCountMask(c.cartridge_rom_size_type)))

\* the bank a write of value to 0x2000..0x3FFF selects
Mbc1RomBank(c, value) ==
    With(Or8(c.rom_secondary_bank_register * 32,
             And8(value, BankCountMask(c.cartridge_rom_size_type))),
         LAMBDA bank :
            IF bank = 0 THEN (IF Test(bank, 4) THEN 0 ELSE 1) ELSE bank)

\* variant of Mbc1SecondaryWrite that stores the RAM bank in either mode
Mbc1SecondaryWrite_any_mode(c, value) ==
    IF c.cartridge_ram_size_type = 3
    THEN [c EXCEPT !.ram_current_bank = And8(value, 3)]
    ELSE c

\* a write to 0x4000..0x5FFF
Mbc1SecondaryWrite(c, value) ==
    IF c.banking_mode = "AdvancedRomOrRamBanking"
    THEN IF c.cartridge_ram_size_type = 3
         THEN [c EXCEPT !.ram_current_bank = And8(value, 3)]
         ELSE IF c.cartridge_rom_size_type >= 5
              THEN [c EXCEPT !.rom_secondary_bank_register = And8(value, 3)]
              ELSE c
    ELSE c

Cartridge_write_panics(c, addr) ==
    /\ c.mapper = "MBC1"
    /\ CASE IsCartridgeRom(addr) -> FALSE
         [] IsCartridgeRam(addr) ->
               c.ram_enable /\ Cartridge_ram_bank(c) >= c.ram_bank_count
         [] OTHER -> TRUE

Cartridge_mem_write_mbc1(c, addr, value) ==
    CASE addr \in 0..8191 -> [c EXCEPT !.ram_enable = RamGate(value)]
      [] addr \in 8192..16383 -> [c EXCEPT !.rom_current_bank = Mbc1RomBank(c, value)]
      [] addr \in 16384..24575 -> Mbc1SecondaryWrite(c, value)
      [] addr \in 24576..32767 ->
            [c EXCEPT !.banking_mode =
                IF And8(value, 1) = 0 THEN "Simple" ELSE "AdvancedRomOrRamBanking"]
      [] OTHER ->
            IF ~c.ram_enable THEN c
            ELSE [c EXCEPT !.ram_banks =
                    MemSet(c.ram_banks, Cartridge_ram_bank(c) * 8192 + (addr - 40960), value)]

\* Cartridge::mem_write: the panic, or the effect
Cartridge_mem_write(c, addr, value) ==
    IF Cartridge_write_panics(c, addr) THEN [c EXCEPT !.failed = TRUE]
    ELSE IF c.mapper = "None" THEN c
    ELSE Cartridge_mem_write_mbc1(c, addr, value)

-----------------------------------------------------------------------------
(* SpecCartridge: a Cartridge loaded from an MBC1 image, then written and  *)
(* read through Mem.  obs records the last access, the cartridge before    *)
(* it, whether the latest write to 0x0000..0x1FFF opened the RAM gate, the *)
(* latest byte stored in external RAM with the bank it went to, and how    *)
(* far a disable and re-enable of the gate has gone since (stage 0, 1, 2). *)

MaxCartOps == 5

\* MBC1 images of 64 KiB, 1 MiB and 2 MiB with no, 8 KiB and 32 KiB of RAM
CartImages ==
    {Image(<<NOP>>, NOP, rom, ram) : rom \in {1, 5, 6}, ram \in {0, 2, 3}}

CartWrites ==
    {<<0, 10>>, <<8191, 26>>, <<0, 0>>, <<4096, 11>>,
     <<8192, 0>>, <<8192, 32>>, <<16383, 64>>, <<8192, 96>>, <<8192, 35>>,
     <<16384, 1>>, <<16384, 2>>, <<24576, 1>>, <<24576, 0>>,
     <<40960, 91>>, <<49151, 37>>}

CartReads == {16384, 40960, 49151}

NoRamWrite == [addr |-> -1, value |-> 0, bank |-> 0]

InitCartridge ==
    /\ cpu = Cpu_new /\ io = IoRegisters_new /\ bus = Bus_new
    /\ ppu = Ppu_new /\ apu = Apu_new
    /\ gb = [loaded |-> FALSE, failed |-> FALSE]
    /\ \E img \in CartImages : cart = Cartridge_load(img)
    /\ obs = [op |-> "load", addr |-> 0, value |-> 0, pre |-> cart, n |-> 0,
              gate |-> FALSE, last |-> NoRamWrite, stage |-> 0]

\* the gate's progress through a disable and re-enable after a stored byte
GateStage(stage, enabled) ==
    CASE stage = 0 /\ ~enabled -> 1
      [] stage = 1 /\ enabled -> 2
      [] OTHER -> stage

\* cartridge.mem_write(addr, value)
CartWrite(addr, value) ==
    /\ ~cart.failed /\ obs.n < MaxCartOps
    /\ \E c \in {Cartridge_mem_write(cart, addr, value)} :
          /\ cart' = c
          /\ obs' = [op |-> "write", addr |-> addr, value |-> value, pre |-> cart,
                     n |-> obs.n + 1,
                     gate |-> IF addr \in 0..8191 THEN value % 16 = 10 ELSE obs.gate,
                     last |-> IF IsCartridgeRam(addr) /\ cart.ram_enable /\ ~c.failed
                              THEN [addr |-> addr, value |-> value,
                                    bank |-> Cartridge_ram_bank(cart)]
                              ELSE obs.last,
                     stage |-> IF IsCartridgeRam(addr) /\ cart.ram_enable THEN 0
                               ELSE GateStage(obs.stage, c.ram_enable)]
    /\ UNCHANGED <<cpu, io, bus, ppu, apu, gb>>

\* cartridge.mem_read(addr)
CartRead(addr) ==
    /\ ~cart.failed /\ obs.n < MaxCartOps
    /\ cart' = [cart EXCEPT !.failed = Cartridge_read_panics(cart, addr)]
    /\ obs' = [obs EXCEPT !.op = "read", !.addr = addr,
                          !.value = Cartridge_mem_read(cart, addr),
                          !.pre = cart, !.n = obs.n + 1]
    /\ UNCHANGED <<cpu, io, bus, ppu, apu, gb>>

NextCartridge ==
    \/ \E w \in CartWrites : CartWrite(w[1], w[2])
    \/ \E addr \in CartReads : CartRead(addr)

SpecCartridge == InitCartridge /\ [][NextCartridge]_vars

\* C11: the RAM gate is open exactly when the latest write to 0x0000..0x1FFF
\* had low nibble 0xA (closed when there was none); with the gate closed a
\* read of external RAM gives 0xFF and a write there changes nothing; a byte
\* stored with the gate open is read back after the gate was closed and
\* opened again.
C11_RamGate ==
    ~cart.failed =>
        /\ cart.ram_enable <=> obs.gate
        /\ (obs.op = "read" /\ IsCartridgeRam(obs.addr) /\ ~obs.pre.ram_enable) =>
              obs.value = 255
        /\ (obs.op = "write" /\ IsCartridgeRam(obs.addr) /\ ~obs.pre.ram_enable) =>
              cart = obs.pre
        /\ (obs.op = "write" /\ ~IsCartridgeRam(obs.addr)) =>
              cart.ram_banks = obs.pre.ram_banks
        /\ (/\ obs.op = "read" /\ obs.addr = obs.last.addr /\ obs.stage = 2
            /\ cart.ram_enable /\ Cartridge_ram_bank(cart) = obs.last.bank) =>
              obs.value = obs.last.value

\* a byte stored, the gate closed by a write of 0x00 and opened
\* again, and the byte read back
C11_Witness ==
    /\ ~cart.failed /\ obs.op = "read" /\ obs.stage = 2
    /\ obs.last = [addr |-> 40960, value |-> 91, bank |-> 0]
    /\ obs.addr = 40960 /\ obs.value = 91 /\ cart.ram_enable

\* C12: the ROM bank mapped at 0x4000..0x7FFF of an MBC1 cartridge is never
\* bank 0; a write to 0x2000..0x3FFF asking for bank 0 selects bank 1.
C12_RomBankNeverZero ==
    (~cart.failed /\ cart.mapper = "MBC1") =>
        /\ cart.rom_current_bank # 0
        /\ (/\ obs.op = "write" /\ obs.addr \in 8192..16383
            /\ obs.pre.rom_secondary_bank_register = 0
            /\ And8(obs.value, BankCountMask(cart.cartridge_rom_size_type)) = 0) =>
              cart.rom_current_bank = 1

\* a write of 0x00 to 0x2000 while another bank was selected
C12_Witness ==
    /\ ~cart.failed /\ obs.op = "write" /\ obs.addr = 8192 /\ obs.value = 0
    /\ obs.pre.rom_current_bank = 3
    /\ cart.rom_current_bank = 1

\* C13 as stated: ram_current_bank is 0 unless the banking mode is Advanced
\* and the cartridge has 32 KiB of RAM, also after a switch back to Simple.
C13_RamBankZeroUnlessAdvanced ==
    (~cart.failed /\ cart.ram_current_bank # 0) =>
        /\ cart.banking_mode = "AdvancedRomOrRamBanking"
        /\ cart.cartridge_ram_size_type = 3

\* C13 (amended): the RAM bank that accesses to 0xA000..0xBFFF use is 0 unless
\* the banking mode is Advanced and the cartridge has 32 KiB of RAM: a read in
\* Simple mode, or of a smaller RAM, gives the byte of bank 0 whatever
\* ram_current_bank holds.  ram_current_bank itself is 0 unless the cartridge
\* has 32 KiB of RAM, it changes only by a write to 0x4000..0x5FFF made in
\* Advanced mode, and a switch back to Simple mode leaves it as it is.
C13_RamBankUsed ==
    ~cart.failed =>
        /\ cart.ram_current_bank # 0 => cart.cartridge_ram_size_type = 3
        /\ cart.ram_current_bank # obs.pre.ram_current_bank =>
              /\ obs.op = "write" /\ obs.addr \in 16384..24575
              /\ obs.pre.banking_mode = "AdvancedRomOrRamBanking"
        /\ (/\ obs.op = "read" /\ IsCartridgeRam(obs.addr) /\ cart.ram_enable
            /\ \/ cart.banking_mode = "Simple"
               \/ cart.cartridge_ram_size_type # 3) =>
              obs.value = MemGet(cart.ram_banks, obs.addr - 40960)
        /\ (/\ obs.op = "write" /\ IsCartridgeRam(obs.addr) /\ cart.ram_enable
            /\ \/ cart.banking_mode = "Simple"
               \/ cart.cartridge_ram_size_type # 3) =>
              MemGet(cart.ram_banks, obs.addr - 40960) = obs.value

\* in Simple mode with bank register 2, a byte is stored at 0xA000: it goes
\* to bank 0, and bank 2 stays empty
C13_Witness ==
    /\ ~cart.failed /\ obs.op = "write" /\ obs.addr = 40960 /\ obs.value = 91
    /\ cart.ram_enable /\ cart.banking_mode = "Simple"
    /\ cart.ram_current_bank = 2
    /\ MemGet(cart.ram_banks, 0) = 91
    /\ MemGet(cart.ram_banks, 2 * 8192) = 0

\* the values whose low five bits ask for bank 0
AliasValues == {0, 32, 64, 96}

\* C14: in Simple mode, on a ROM that has the bank, a write of 0x00, 0x20,
\* 0x40 or 0x60 to 0x2000..0x3FFF selects ROM bank 0x01, 0x21, 0x41 or 0x61.
C14_BankZeroAlias ==
    (/\ ~cart.failed /\ obs.op = "write" /\ obs.addr \in 8192..16383
     /\ obs.value \in AliasValues
     /\ cart.banking_mode = "Simple"
     /\ obs.value + 1 < cart.rom_bank_count) =>
        cart.rom_current_bank = obs.value + 1

\* the upper bank bits set to 1 and the mode back to Simple, then a write of
\* 0x20 to 0x2000: bank 0x20 is selected
C14_Bank20Selected ==
    /\ ~cart.failed /\ obs.op = "write" /\ obs.addr = 8192 /\ obs.value = 32
    /\ cart.banking_mode = "Simple"
    /\ cart.rom_secondary_bank_register = 1
    /\ cart.rom_current_bank = 32

-----------------------------------------------------------------------------
(* SpecTimer: Cpu::tick on programs that clear IF, set TMA and TIMA, write *)
(* TAC and then either loop over NOP, LD A and JP or halt with IE = 0.     *)
(* obs records the last tick, the timer registers before it, and, from the *)
(* tick that writes TAC on, the T-cycles of the ticks made, the TIMA       *)
(* increments seen and whether one of them started from 0xFF.              *)

MaxTimerCycles == 2200

\* the reload value the programs put in TMA (0xF0)
TimerTma == 15 * 16

TacValues == 0..7

\* IF := 0, TMA, TIMA := 0xFE, then the TAC write at TacWritePc
TimerSetup(tac) == Out(15, 0) \o Out(6, TimerTma) \o Out(5, 254) \o Out(7, tac)

\* the address of the instruction that writes TAC: the LDH of the last Out
TacWritePc == ENTRY_POINT + 14

TimerLoopProgram(tac) ==
    TimerSetup(tac)
    \o <<NOP, LD_A_D8, 0, JP_A16, (ENTRY_POINT + 16) % 256, (ENTRY_POINT + 16) \div 256>>

TimerHaltProgram(tac) == TimerSetup(tac) \o <<HALT, NOP, NOP>>

TimerImages ==
    {Image(code, NOP, 0, 0) :
        code \in {TimerLoopProgram(tac) : tac \in TacValues}
                 \cup {TimerHaltProgram(tac) : tac \in TacValues}}

InitTimer ==
    /\ \E img \in TimerImages : Holds(GameBoy_load(GameBoy_new, img))
    /\ obs = [op |-> "load", path |-> "none", m |-> 0, cycles |-> 0,
              pre |-> [pc |-> 0, tima |-> 0, tma |-> 0, tac |-> 0, iflag |-> 0],
              started |-> FALSE, total |-> 0, count |-> 0, overflowed |-> FALSE]

\* the TIMA increments that take tima to tima2, at most one of them a reload
TimaIncrements(tima, tima2, tma) ==
    IF tima2 >= tima THEN tima2 - tima ELSE (256 - tima) + (tima2 - tma)

TimerTick ==
    /\ gb.loaded /\ ~gb.failed
    /\ obs.cycles < MaxTimerCycles
    /\ NextOpcodeModelled(Machine)
    /\ \E c \in {Cpu_execute(Machine)} :
          /\ Becomes(c.s)
          /\ \E now \in {cpu.registers.pc = TacWritePc} :
                obs' = [op |-> "tick", path |-> c.path, m |-> c.m,
                        cycles |-> obs.cycles + TCycles(c.m),
                        pre |-> [pc |-> cpu.registers.pc, tima |-> io.tima, tma |-> io.tma,
                                 tac |-> io.tac, iflag |-> io.interrupt_flag],
                        started |-> obs.started \/ now,
                        total |-> IF now THEN TCycles(c.m)
                                  ELSE IF obs.started THEN obs.total + TCycles(c.m)
                                  ELSE 0,
                        count |-> IF obs.started
                                  THEN obs.count + TimaIncrements(io.tima, c.s.io.tima, io.tma)
                                  ELSE 0,
                        overflowed |-> \/ obs.overflowed
                                       \/ obs.started /\ c.s.io.tima < io.tima]

NextTimer == TimerTick

SpecTimer == InitTimer /\ [][NextTimer]_vars

\* the period in T-cycles the claim gives for TAC[1:0]
TimerPeriod(tac) ==
    CASE tac % 4 = 0 -> 1024
      [] tac % 4 = 1 -> 16
      [] tac % 4 = 2 -> 64
      [] OTHER -> 256

\* C15: from the write that starts the timer, with TAC bit 2 set the number
\* of TIMA increments is the number of whole periods (1024, 16, 64, 256
\* T-cycles for TAC[1:0] = 0, 1, 2, 3) in the T-cycles of the instructions
\* executed; an increment from 0xFF leaves TMA in TIMA and sets the TIMER bit
\* of IF, which is set by nothing else; with TAC bit 2 clear the ticks change
\* neither TIMA nor the TIMER bit.
C15_Timer ==
    (obs.started /\ ~gb.failed) =>
        IF Test(io.tac, 2)
        THEN /\ obs.count = obs.total \div TimerPeriod(io.tac)
             /\ io.clock_accumulator = obs.total % TimerPeriod(io.tac)
             /\ Test(io.interrupt_flag, TIMER) <=> obs.overflowed
             /\ (obs.pre.pc # TacWritePc /\ obs.pre.tima = 255 /\ io.tima # 255) =>
                   /\ io.tima \in {obs.pre.tma, obs.pre.tma + 1}
                   /\ Test(io.interrupt_flag, TIMER)
        ELSE /\ obs.count = 0
             /\ obs.pre.pc # TacWritePc => io.tima = obs.pre.tima
             /\ ~Test(io.interrupt_flag, TIMER)

\* at one increment per 1024 T-cycles, the second increment reloads TIMA
C15_Witness ==
    /\ obs.started /\ ~gb.failed /\ io.tac % 8 = 4
    /\ obs.total >= 2048 /\ obs.count = 2 /\ obs.overflowed
    /\ obs.pre.tima = 255 /\ io.tima = TimerTma
    /\ Test(io.interrupt_flag, TIMER)

-----------------------------------------------------------------------------
(* SpecStat: the PPU driven dot by dot from the power-up state while the   *)
(* CPU writes IF and STAT.  The engine runs the PPU in batches after each  *)
(* instruction, so the writes of a program that starts with                *)
(*   LD A,0 ; LDH (0x0F),A ; LD A,v ; LDH (0x41),A                         *)
(* land after 8 and after 28 Ppu::tick calls.  obs records the last        *)
(* operation, the calls made, and STAT and IF before the operation.        *)

MaxStatTicks == 100000

\* STAT values written: each interrupt source alone, and none
StatValues == {0, 8, 16, 32, 64}

\* the CPU writes and the number of Ppu::tick calls each lands after
StatWrites ==
    {[at |-> 8, addr |-> 65295, value |-> 0]}
    \cup {[at |-> 28, addr |-> 65345, value |-> v] : v \in StatValues}

InitStat ==
    /\ Holds(GameBoy_new)
    /\ obs = [op |-> "init", n |-> 0, written |-> -1, value |-> 0, result |-> FALSE,
              pre |-> [stat |-> io.stat, iflag |-> io.interrupt_flag]]

StatTick ==
    /\ ~gb.failed
    /\ obs.n < MaxStatTicks
    /\ ~Ppu_tick_panics(ppu, io)
    /\ \E t \in {Ppu_tick(ppu, io)} :
          /\ ppu' = t.ppu
          /\ io' = t.io
          /\ obs' = [obs EXCEPT !.op = "ppu_tick", !.n = obs.n + 1, !.result = t.result,
                                !.pre = [stat |-> io.stat, iflag |-> io.interrupt_flag]]
    /\ UNCHANGED <<cpu, bus, apu, gb, cart>>

\* bus.mem_write(w.addr, w.value), by the instruction that runs after w.at calls
StatWrite(w) ==
    /\ ~gb.failed
    /\ obs.n = w.at /\ obs.written # obs.n
    /\ Becomes(Bus_write(Machine, w.addr, w.value))
    /\ obs' = [obs EXCEPT !.op = IF w.addr = 65345 THEN "write_stat" ELSE "write_if",
                          !.written = obs.n, !.value = w.value,
                          !.pre = [stat |-> io.stat, iflag |-> io.interrupt_flag]]

NextStat ==
    \/ StatTick
    \/ \E w \in StatWrites : StatWrite(w)

SpecStat == InitStat /\ [][NextStat]_vars

\* C16: a CPU write to STAT changes only bits 3..6: bits 0..1 (the mode) and
\* bit 2 (the coincidence) stay as the PPU left them, bits 3..6 take the
\* written value, and STAT reads with bit 7 set.
C16_StatWrite ==
    (obs.op = "write_stat" /\ ~gb.failed) =>
        /\ io.stat % 8 = obs.pre.stat % 8
        /\ (io.stat \div 8) % 16 = (obs.value \div 8) % 16
        /\ Test(Bus_mem_read(Machine, 65345), 7)

\* a write of 0x20 to STAT during OAM scan leaves the mode bits at 0
C16_ModeCleared ==
    /\ obs.op = "write_stat" /\ ~gb.failed /\ obs.value = 32
    /\ obs.pre.stat % 4 = 2
    /\ io.stat = 32

\* the mode bits of a STAT value
StatMode(stat) == stat % 4

\* the tick obs describes took the PPU into mode m
Entered(m) == obs.op = "ppu_tick" /\ StatMode(obs.pre.stat) # m /\ StatMode(io.stat) = m

\* C17: with the LCD enabled, a tick that takes the PPU into H-blank,
\* V-blank or OAM scan (the OAM scan of line 0 included), or in which LYC ==
\* LY sets in, leaves the LCD_STAT bit of IF set when STAT bit 3, 4, 5 or 6
\* is set; with STAT bits 3..6 clear no tick sets LCD_STAT; a tick into
\* V-blank leaves the VBLANK bit set.
C17_StatSources ==
    (obs.op = "ppu_tick" /\ ~gb.failed /\ LcdcContains(io, LCD_PPU_ENABLE)) =>
        /\ (Entered(0) /\ Test(obs.pre.stat, 3)) => Test(io.interrupt_flag, LCD_STAT)
        /\ (Entered(1) /\ Test(obs.pre.stat, 4)) => Test(io.interrupt_flag, LCD_STAT)
        /\ (Entered(2) /\ Test(obs.pre.stat, 5)) => Test(io.interrupt_flag, LCD_STAT)
        /\ (~Test(obs.pre.stat, 2) /\ Test(io.stat, 2) /\ Test(obs.pre.stat, 6)) =>
              Test(io.interrupt_flag, LCD_STAT)
        /\ ((obs.pre.stat \div 8) % 16 = 0 /\ ~Test(obs.pre.iflag, LCD_STAT)) =>
              ~Test(io.interrupt_flag, LCD_STAT)
        /\ Entered(1) => Test(io.interrupt_flag, VBLANK)

\* STAT bit 5 set, the frame over: the tick into the OAM scan of line 0
\* leaves LCD_STAT clear
C17_FrameStartMissed ==
    /\ obs.op = "ppu_tick" /\ ~gb.failed
    /\ Entered(2) /\ StatMode(obs.pre.stat) = 1 /\ Test(obs.pre.stat, 5)
    /\ io.ly = 0 /\ ppu.dot_counter = 1
    /\ ~Test(io.interrupt_flag, LCD_STAT)

-----------------------------------------------------------------------------
(* SpecSprites: the PPU driven dot by dot over the first scanlines, from   *)
(* the power-up state with OAM filled by the CPU (or an OAM DMA) and LCDC  *)
(* left at 0x91 or set to 0x93 (objects on).  A layout lists its sprites   *)
(* as <<OAM index, y, x>>; the other OAM bytes stay 0.                     *)

MaxSpriteTicks == 1500

OamLayouts ==
    { \* twelve sprites on lines 0..7, x descending
      [k \in 1..12 |-> <<k - 1, 16, 8 * (13 - k)>>],
      \* eleven sprites at the even indexes, two x values in turn
      [k \in 1..11 |-> <<2 * (k - 1), 16, IF k % 2 = 0 THEN 20 ELSE 12>>],
      \* three sprites on different lines
      <<<<0, 16, 40>>, <<1, 17, 30>>, <<5, 18, 30>>>>,
      \* fourteen sprites at the end of OAM on lines 1..8, all at one x
      [k \in 1..14 |-> <<25 + k, 17, 30>>] }

\* the Ppu with the sprites of a layout written to OAM
RECURSIVE OamFilled(_, _)
OamFilled(p, layout) ==
    IF layout = <<>> THEN p
    ELSE OamFilled(
            Vram_mem_write(Vram_mem_write(p, 65024 + 4 * Head(layout)[1], Head(layout)[2]),
                           65024 + 4 * Head(layout)[1] + 1, Head(layout)[3]),
            Tail(layout))

InitSprites ==
    /\ \E layout \in OamLayouts, lcdc \in {145, 147} :
          Holds([GameBoy_new EXCEPT
                    !.ppu = OamFilled(Ppu_new, layout),
                    !.io = IoRegisters_mem_write(IoRegisters_new, 65344, lcdc)])
    /\ obs = [op |-> "init", n |-> 0, pre_mode |-> io.stat % 4]

SpritesTick ==
    /\ ~gb.failed
    /\ obs.n < MaxSpriteTicks
    /\ IF Ppu_tick_panics(ppu, io)
       THEN /\ gb' = [gb EXCEPT !.failed = TRUE]
            /\ obs' = [op |-> "ppu_tick", n |-> obs.n + 1, pre_mode |-> io.stat % 4]
            /\ UNCHANGED <<ppu, io>>
       ELSE \E t \in {Ppu_tick(ppu, io)} :
               /\ ppu' = t.ppu
               /\ io' = t.io
               /\ obs' = [op |-> "ppu_tick", n |-> obs.n + 1, pre_mode |-> io.stat % 4]
               /\ UNCHANGED gb
    /\ UNCHANGED <<cpu, bus, apu, cart>>

NextSprites == SpritesTick

SpecSprites == InitSprites /\ [][NextSprites]_vars

\* the OAM entries whose rows include scanline ly
OverlappingSprites(ly) ==
    {i \in 0..39 :
        /\ MemGet(ppu.oam, 4 * i) <= ly + 16
        /\ ly + 16 - (IF LcdcContains(io, OBJ_SIZE) THEN 16 ELSE 8) < MemGet(ppu.oam, 4 * i)}

\* the first ten of them in OAM order
FirstTenSprites(ly) ==
    {i \in OverlappingSprites(ly) :
        Cardinality({j \in OverlappingSprites(ly) : j < i}) < 10}

\* the tick obs describes ended the OAM scan of a line
OamScanEnded == obs.op = "ppu_tick" /\ ~gb.failed /\ obs.pre_mode = 2 /\ io.stat % 4 = 3

\* C18: the sprite buffer never holds more than 10 entries; at the end of
\* the OAM scan of a line it holds the first 10 sprites, in OAM order, of
\* those that overlap the line, ordered by x ascending and, at equal x, by
\* OAM index ascending.
C18_SpriteSelection ==
    /\ Len(ppu.sprites) <= 10
    /\ OamScanEnded =>
          /\ {ppu.sprites[k].oam_index : k \in 1..Len(ppu.sprites)} = FirstTenSprites(io.ly)
          /\ Len(ppu.sprites) = Cardinality(FirstTenSprites(io.ly))
          /\ \A k \in 1..Len(ppu.sprites) :
                /\ ppu.sprites[k].y = MemGet(ppu.oam, 4 * ppu.sprites[k].oam_index)
                /\ ppu.sprites[k].x = MemGet(ppu.oam, 4 * ppu.sprites[k].oam_index + 1)
          /\ \A k, l \in 1..Len(ppu.sprites) :
                k < l =>
                   \/ ppu.sprites[k].x < ppu.sprites[l].x
                   \/ /\ ppu.sprites[k].x = ppu.sprites[l].x
                      /\ ppu.sprites[k].oam_index < ppu.sprites[l].oam_index

\* eleven sprites overlap line 0: the eleventh (index 20) is left out, and
\* those at x = 12 come before those at x = 20
C18_Witness ==
    /\ OamScanEnded /\ io.ly = 0
    /\ Cardinality(OverlappingSprites(0)) = 11
    /\ Len(ppu.sprites) = 10
    /\ ppu.sprites[1].oam_index = 0 /\ ppu.sprites[1].x = 12
    /\ ppu.sprites[5].oam_index = 16 /\ ppu.sprites[6].oam_index = 2
    /\ ppu.sprites[10].oam_index = 18 /\ ppu.sprites[10].x = 20


-----------------------------------------------------------------------------
(* SpecApu: the engine runs a program that switches a channel's DAC on,    *)
(* writes NRx1, triggers the channel with the length enable bit of NRx4    *)
(* set, and halts.  The halted CPU keeps the timers, the PPU and the APU   *)
(* ticking; obs counts the 256 Hz length steps since the trigger.          *)

MaxApuCycles == 8300

Channels == 1..4

\* the port (low address byte) of NRx1, of the DAC register, of NRx4
LengthPort(ch) == CASE ch = 1 -> 17 [] ch = 2 -> 22 [] ch = 3 -> 27 [] OTHER -> 32
DacPort(ch) == CASE ch = 1 -> 18 [] ch = 2 -> 23 [] ch = 3 -> 26 [] OTHER -> 33
TriggerPort(ch) == CASE ch = 1 -> 20 [] ch = 2 -> 25 [] ch = 3 -> 30 [] OTHER -> 35

\* the NRx1 values written: a duty of 2 with length 62, length 63; for the
\* wave channel the lengths 254 and 255
LengthValues(ch) == IF ch = 3 THEN {254, 255} ELSE {128 + 62, 63}

LengthProgram(ch, v) ==
    Out(DacPort(ch), IF ch = 3 THEN 128 ELSE 240)
    \o Out(LengthPort(ch), v)
    \o Out(TriggerPort(ch), 128 + 64)
    \o <<HALT, NOP, NOP>>

LengthWritePc == ENTRY_POINT + 6
TriggerPc == ENTRY_POINT + 10

InitApu ==
    \E ch \in Channels : \E v \in LengthValues(ch) :
        /\ Holds(GameBoy_load(GameBoy_new, Image(LengthProgram(ch, v), NOP, 0, 0)))
        /\ obs = [op |-> "load", cycles |-> 0, ch |-> ch, v |-> v,
                  triggered |-> FALSE, len_ticks |-> 0]

ApuEngineTick ==
    /\ gb.loaded /\ ~gb.failed
    /\ obs.cycles < MaxApuCycles
    /\ NextOpcodeModelled(Machine)
    /\ \E t \in {GameBoy_tick(Machine)} :
          /\ Becomes(t.s)
          /\ obs' = [obs EXCEPT
                !.op = CASE cpu.registers.pc = LengthWritePc -> "nrx1"
                         [] cpu.registers.pc = TriggerPc -> "trigger"
                         [] OTHER -> "tick",
                !.cycles = obs.cycles + t.m,
                !.triggered = obs.triggered \/ cpu.registers.pc = TriggerPc,
                !.len_ticks =
                    IF obs.triggered /\ t.s.apu.div_apu # apu.div_apu
                       /\ t.s.apu.div_apu % 2 = 0
                    THEN obs.len_ticks + 1 ELSE obs.len_ticks]

NextApu == ApuEngineTick

SpecApu == InitApu /\ [][NextApu]_vars

\* the channel's bit of NR52, as a read of 0xFF26 returns it
ChannelEnabled(ch) == Test(Apu_mem_read(apu, 65318), ch - 1)

LengthTimer(ch) ==
    CASE ch = 1 -> apu.ch1_length_timer
      [] ch = 2 -> apu.ch2_length_timer
      [] ch = 3 -> apu.ch3_length_timer
      [] OTHER -> apu.ch4_length_timer

\* the length step at which the channel is to switch off
ExpiryTick(ch, v) == IF ch = 3 THEN 256 - v ELSE 64 - And8(v, 63)

\* C19: with the length enable bit of NRx4 set, after the write of the
\* initial length L to NRx1 and the trigger, the channel's bit of NR52 is set
\* before the (64 - L)-th 256 Hz length step since the trigger and clear from
\* that step on; for the wave channel the step is the (256 - L)-th.
C19_LengthExpiry ==
    obs.triggered =>
        (ChannelEnabled(obs.ch) <=> obs.len_ticks < ExpiryTick(obs.ch, obs.v))

\* the noise channel with L = 62 is switched off by the first length step
C19_NoiseOffEarly ==
    /\ obs.triggered /\ obs.ch = 4 /\ obs.v = 128 + 62
    /\ obs.len_ticks = 1
    /\ ~ChannelEnabled(4)

\* C20: a write of v to NR11, NR21 or NR41 sets the channel's length timer to
\* 63 - (v & 0x3F), and a read of NR11 or NR21 then returns the two duty
\* bits of v.
C20_LengthWrite ==
    (obs.op = "nrx1" /\ obs.ch # 3) =>
        /\ LengthTimer(obs.ch) = 63 - And8(obs.v, 63)
        /\ obs.ch \in {1, 2} =>
              Apu_mem_read(apu, 65280 + LengthPort(obs.ch)) = And8(obs.v, 192)

\* the write of 0xBE to NR11 leaves a length timer of 0 and a duty of 0
C20_DutyLost ==
    /\ obs.op = "nrx1" /\ obs.ch = 1 /\ obs.v = 128 + 62
    /\ apu.ch1_length_timer = 0
    /\ Apu_mem_read(apu, 65297) = 0


-----------------------------------------------------------------------------
(* SpecRegs: bus accesses to the audio and I/O registers of a loaded       *)
(* engine, as the CPU issues them.  obs records the last access and the    *)
(* machine before it.                                                      *)

MaxRegOps == 3

\* NRx2: DAC off; DAC off with pace 7; decreasing, pace 4; increasing, pace 3;
\* DAC on with volume 0.  NR30: DAC off, DAC on
DacValues(ch) == IF ch = 3 THEN {0, 128} ELSE {0, 7, 15 * 16 + 4, 8 * 16 + 11, 8}

\* NRx4: trigger; trigger with length enable; length enable alone
TriggerValues == {128, 128 + 64, 64}

\* an unmapped address of the I/O page, one of the audio range, the last one
UnmappedIo == {65283, 65301, 65407}

\* LY
ReadOnlyRegs == {65348}

RegWrites ==
    UNION {{<<65280 + DacPort(ch), v>> : v \in DacValues(ch)} : ch \in Channels}
    \cup {<<65280 + TriggerPort(ch), v>> : ch \in Channels, v \in TriggerValues}
    \cup {<<addr, 91>> : addr \in ReadOnlyRegs \cup UnmappedIo}

\* the write-only audio registers, the unmapped addresses, HDMA1, NR52, LY
RegReads == ApuWriteOnly \cup UnmappedIo \cup {65361, 65318, 65348}

InitRegs ==
    /\ Holds(GameBoy_load(GameBoy_new, Image(<<NOP>>, NOP, 0, 0)))
    /\ obs = [op |-> "load", addr |-> 0, value |-> 0, n |-> 0, pre |-> GameBoy_new]

RegWrite(addr, value) ==
    /\ gb.loaded /\ ~gb.failed
    /\ obs.n < MaxRegOps
    /\ Becomes(Bus_write(Machine, addr, value))
    /\ obs' = [op |-> "write", addr |-> addr, value |-> value, n |-> obs.n + 1,
               pre |-> Machine]

RegRead(addr) ==
    /\ gb.loaded /\ ~gb.failed
    /\ obs.n < MaxRegOps
    /\ Becomes(AfterRead(Machine, addr))
    /\ obs' = [op |-> "read", addr |-> addr, value |-> Bus_read(Machine, addr),
               n |-> obs.n + 1, pre |-> Machine]

NextRegs ==
    \/ \E w \in RegWrites : RegWrite(w[1], w[2])
    \/ \E addr \in RegReads : RegRead(addr)

SpecRegs == InitRegs /\ [][NextRegs]_vars

\* the channel's DAC switch in the audio registers a
DacEnabled(a, ch) ==
    CASE ch = 1 -> And8(a.nr12, 248) # 0
      [] ch = 2 -> And8(a.nr22, 248) # 0
      [] ch = 3 -> Test(a.nr30, 7)
      [] OTHER -> And8(a.nr42, 248) # 0

\* the channel's NRx2 (channel 3 has no envelope)
EnvelopeRegister(a, ch) == CASE ch = 1 -> a.nr12 [] ch = 2 -> a.nr22 [] OTHER -> a.nr42

\* the length the last NRx1 write left in the register
LengthReload(a, ch) ==
    CASE ch = 1 -> And8(a.nr11, 63)
      [] ch = 2 -> And8(a.nr21, 63)
      [] ch = 3 -> a.nr31
      [] OTHER -> And8(a.nr41, 63)

EnvelopePace(ch) ==
    CASE ch = 1 -> apu.ch1_envelope_sweep_pace
      [] ch = 2 -> apu.ch2_envelope_sweep_pace
      [] OTHER -> apu.ch4_envelope_sweep_pace

EnvelopeIncrease(ch) ==
    CASE ch = 1 -> apu.ch1_envelope_sweep_direction_increase
      [] ch = 2 -> apu.ch2_envelope_sweep_direction_increase
      [] OTHER -> apu.ch4_envelope_sweep_direction_increase

ChannelVolume(ch) ==
    CASE ch = 1 -> apu.ch1_volume [] ch = 2 -> apu.ch2_volume [] OTHER -> apu.ch4_volume

\* the last access was a write to the channel's NRx4 with bit 7 set
Triggered(ch) ==
    /\ obs.op = "write" /\ ~gb.failed
    /\ obs.addr = 65280 + TriggerPort(ch)
    /\ Test(obs.value, 7)

\* C21: a write to NRx4 with bit 7 set and the channel's DAC on reloads the
\* length counter, the envelope pace (NRx2 bits 0..2), the envelope direction
\* (NRx2 bit 3) and the volume (NRx2 bits 4..7) and sets the channel's bit of
\* NR52; with the DAC off the write leaves the channel's bit of NR52 as it was.
C21_Trigger ==
    \A ch \in Channels :
        Triggered(ch) =>
            IF DacEnabled(obs.pre.apu, ch)
            THEN /\ ChannelEnabled(ch)
                 /\ LengthTimer(ch) = LengthReload(obs.pre.apu, ch)
                 /\ ch # 3 =>
                       /\ EnvelopePace(ch) = And8(EnvelopeRegister(obs.pre.apu, ch), 7)
                       /\ EnvelopeIncrease(ch) =
                              (IF Test(EnvelopeRegister(obs.pre.apu, ch), 3) THEN 1 ELSE -1)
                       /\ ChannelVolume(ch) = EnvelopeRegister(obs.pre.apu, ch) \div 16
            ELSE ChannelEnabled(ch) <=> Test(obs.pre.apu.nr52, ch - 1)

\* channel 2 triggered with NR22 = 0xF4: the channel is on with pace 0
C21_PaceTruncated ==
    /\ Triggered(2)
    /\ obs.pre.apu.nr22 = 15 * 16 + 4
    /\ ChannelEnabled(2)
    /\ apu.ch2_envelope_sweep_pace = 0

\* the trigger outside the envelope pace
C21_TriggerExceptPace ==
    \A ch \in Channels :
        Triggered(ch) =>
            IF DacEnabled(obs.pre.apu, ch)
            THEN /\ ChannelEnabled(ch)
                 /\ LengthTimer(ch) = LengthReload(obs.pre.apu, ch)
                 /\ ch # 3 =>
                       /\ EnvelopePace(ch) = And8(EnvelopeRegister(obs.pre.apu, ch), 3)
                       /\ EnvelopeIncrease(ch) =
                              (IF Test(EnvelopeRegister(obs.pre.apu, ch), 3) THEN 1 ELSE -1)
                       /\ ChannelVolume(ch) = EnvelopeRegister(obs.pre.apu, ch) \div 16
            ELSE ChannelEnabled(ch) <=> Test(obs.pre.apu.nr52, ch - 1)

\* C22: no bus read or write fails; a read of a write-only audio register or
\* of an unmapped I/O address returns 0xFF; a write to a read-only register
\* or to an unmapped I/O address changes nothing.
C22_BusTotal ==
    /\ ~gb.failed
    /\ (obs.op = "read" /\ obs.addr \in ApuWriteOnly \cup UnmappedIo) => obs.value = 255
    /\ (obs.op = "write" /\ obs.addr \in ReadOnlyRegs \cup UnmappedIo) => Machine = obs.pre

\* the read of NR13 aborted the engine
C22_ReadAborted ==
    /\ gb.failed
    /\ obs.op = "read" /\ obs.addr = 65299


-----------------------------------------------------------------------------
(* IF as the bus reads it, under SpecTimer: the program writes IF and the  *)
(* timer raises its request bit.                                           *)

\* C23: in every state a bus read of IF (0xFF0F) has its upper three bits
\* equal to 1.
C23_IfUpperBits == And8(Bus_read(Machine, 65295), 224) = 224

\* the timer has raised its request after the program wrote 0 to IF: IF
\* reads 0x04
C23_UpperBitsCleared ==
    /\ obs.overflowed
    /\ Bus_read(Machine, 65295) = Pow2(TIMER)


-----------------------------------------------------------------------------
(* SpecAlu: one 8-bit arithmetic instruction with an immediate operand,    *)
(* executed from every value of A, every operand and both values of the    *)
(* carry flag.  obs records the registers before the instruction.          *)

\* F before the instruction: Z, N, H set and C clear; C alone
AluFlags == {224, 16}

InitAlu ==
    \E opcode \in AluOpcodes : \E a \in 0..255 : \E b \in 0..255 : \E f \in AluFlags :
        /\ Holds([GameBoy_load(GameBoy_new, Image(<<opcode, b>>, NOP, 0, 0))
                    EXCEPT !.cpu.registers.a = a, !.cpu.registers.f = f])
        /\ obs = [op |-> "load", opcode |-> opcode, value |-> b, m |-> 0,
                  pre |-> cpu.registers]

AluTick ==
    /\ gb.loaded /\ ~gb.failed
    /\ cpu.registers.pc = ENTRY_POINT
    /\ NextOpcodeModelled(Machine)
    /\ \E c \in {Cpu_execute(Machine)} :
          /\ Becomes(c.s)
          /\ obs' = [obs EXCEPT !.op = "tick", !.m = c.m, !.pre = cpu.registers]

NextAlu == AluTick

SpecAlu == InitAlu /\ [][NextAlu]_vars

\* the value the laws give the flag register: Z, N, H, C in bits 7..4
FlagByte(z, n, h, c) ==
    (IF z THEN 128 ELSE 0) + (IF n THEN 64 ELSE 0) + (IF h THEN 32 ELSE 0)
    + (IF c THEN 16 ELSE 0)

\* the laws of an addition of a, b and the carry-in c
AddLaw(a, b, c) ==
    /\ cpu.registers.a = (a + b + c) % 256
    /\ cpu.registers.f = FlagByte((a + b + c) % 256 = 0, FALSE,
                                  (a % 16) + (b % 16) + c > 15, a + b + c > 255)

\* the flag laws of a subtraction of b and the borrow c from a
SubLaw(a, b, c) ==
    cpu.registers.f = FlagByte((a - b - c) % 256 = 0, TRUE,
                               (a % 16) < (b % 16) + c, a < b + c)

\* C24: ADD sets Z iff (a+b) & 0xFF = 0, C iff a+b > 0xFF, H iff
\* (a & 0xF) + (b & 0xF) > 0xF, and clears N; ADC obeys the same laws with the
\* carry-in added; SUB, SBC and CP set N, Z iff the 8-bit result is 0, C iff
\* a < b (+c) and H iff (a & 0xF) < (b & 0xF) (+c); CP leaves A unchanged.
C24_FlagLaws ==
    (obs.op = "tick" /\ ~gb.failed) =>
        /\ obs.m = 2
        /\ CASE obs.opcode = ADD_A_D8 -> AddLaw(obs.pre.a, obs.value, 0)
             [] obs.opcode = ADC_A_D8 -> AddLaw(obs.pre.a, obs.value, CarryIn(obs.pre.f))
             [] obs.opcode = SUB_D8 ->
                    /\ SubLaw(obs.pre.a, obs.value, 0)
                    /\ cpu.registers.a = (obs.pre.a - obs.value) % 256
             [] obs.opcode = SBC_A_D8 ->
                    /\ SubLaw(obs.pre.a, obs.value, CarryIn(obs.pre.f))
                    /\ cpu.registers.a = (obs.pre.a - obs.value - CarryIn(obs.pre.f)) % 256
             [] OTHER ->
                    /\ SubLaw(obs.pre.a, obs.value, 0)
                    /\ cpu.registers.a = obs.pre.a

\* SBC of 0x10 - 0x0F - 1: the result is 0 with Z and H set and no carry
C24_Witness ==
    /\ obs.op = "tick" /\ ~gb.failed
    /\ obs.opcode = SBC_A_D8 /\ obs.pre.a = 16 /\ obs.value = 15 /\ obs.pre.f = 16
    /\ cpu.registers.a = 0
    /\ cpu.registers.f = 128 + 64 + 32


-----------------------------------------------------------------------------
(* SpecStack: programs that set SP, load a register pair, push it and pop  *)
(* it into a pair; the AF program pops arbitrary bytes into AF, pushes AF, *)
(* pops it again and adds.  obs records the last two opcodes, and SP and   *)
(* the pair's value at the last PUSH.                                      *)

\* the stack in work RAM, at the top of work RAM, and at the top of high RAM
StackTops == {12 * 4096 + 256, 14 * 4096, 65534}

\* every combination of a high byte and a low byte of the two sets
StackValues == {hi * 256 + lo : hi \in {0, 18, 128, 255}, lo \in {0, 1, 15, 52, 240, 255}}

LoadPairs == {LD_BC_D16, LD_DE_D16, LD_HL_D16}
PushOpcodes == {PUSH_BC, PUSH_DE, PUSH_HL, PUSH_AF}
PopOpcodes == {POP_BC, POP_DE, POP_HL, POP_AF}

\* the PUSH of the pair that the LD loads
PushOf(ld) == CASE ld = LD_BC_D16 -> PUSH_BC [] ld = LD_DE_D16 -> PUSH_DE [] OTHER -> PUSH_HL

LdSp(sp) == <<LD_SP_D16, sp % 256, sp \div 256>>

PairProgram(sp, ld, v, pop) ==
    LdSp(sp) \o <<ld, v % 256, v \div 256, PushOf(ld), pop, HALT>>

AfProgram(sp, v) ==
    LdSp(sp) \o <<LD_BC_D16, v % 256, v \div 256, PUSH_BC, POP_AF, PUSH_AF, POP_AF,
                  ADC_A_D8, 1, HALT>>

StackPrograms ==
    {PairProgram(sp, ld, v, pop) :
        sp \in StackTops, ld \in LoadPairs, v \in StackValues, pop \in {POP_BC, POP_DE, POP_HL}}
    \cup {AfProgram(sp, v) : sp \in StackTops, v \in StackValues}

\* the value of the pair that the PUSH or POP opcode names
PairOf(regs, opcode) ==
    CASE opcode \in {PUSH_BC, POP_BC} -> CpuRegisters_bc(regs)
      [] opcode \in {PUSH_DE, POP_DE} -> CpuRegisters_de(regs)
      [] opcode \in {PUSH_HL, POP_HL} -> CpuRegisters_hl(regs)
      [] OTHER -> CpuRegisters_af(regs)

InitStack ==
    /\ \E code \in StackPrograms : Holds(GameBoy_load(GameBoy_new, Image(code, NOP, 0, 0)))
    /\ obs = [op |-> -1, prev |-> -1, m |-> 0, push_sp |-> 0, pushed |-> 0]

StackTick ==
    /\ gb.loaded /\ ~gb.failed /\ ~cpu.halted
    /\ NextOpcodeModelled(Machine)
    /\ \E c \in {Cpu_execute(Machine)} :
          /\ Becomes(c.s)
          /\ obs' = [op |-> c.opcode, prev |-> obs.op, m |-> c.m,
                     push_sp |-> IF c.opcode \in PushOpcodes THEN cpu.registers.sp
                                 ELSE obs.push_sp,
                     pushed |-> IF c.opcode \in PushOpcodes
                                THEN PairOf(cpu.registers, c.opcode) ELSE obs.pushed]

NextStack == StackTick

SpecStack == InitStack /\ [][NextStack]_vars

\* the last instruction was a POP that directly followed a PUSH
PopAfterPush == obs.op \in PopOpcodes /\ obs.prev \in PushOpcodes /\ ~gb.failed

\* C25: PUSH rr directly followed by POP rr' leaves in rr' the value rr had
\* and in SP the value it had before the PUSH; PUSH AF directly followed by
\* POP AF leaves the same A and an F whose low nibble is zero.
C25_PushPop ==
    PopAfterPush =>
        /\ cpu.registers.sp = obs.push_sp
        /\ obs.op # POP_AF => PairOf(cpu.registers, obs.op) = obs.pushed
        /\ (obs.op = POP_AF /\ obs.prev = PUSH_AF) =>
              /\ cpu.registers.a = obs.pushed \div 256
              /\ cpu.registers.f % 16 = 0

\* 0x12F0 pushed from HL with the stack in high RAM and popped into DE
C25_Witness ==
    /\ PopAfterPush
    /\ obs.prev = PUSH_HL /\ obs.op = POP_DE
    /\ obs.pushed = 18 * 256 + 240
    /\ CpuRegisters_de(cpu.registers) = 18 * 256 + 240
    /\ cpu.registers.sp = 65534

\* C26: in every state the low nibble of the flag register F is zero.
C26_FlagNibble == cpu.registers.f % 16 = 0

\* POP AF of the bytes 0xFF, 0xFF: F is 0xF0
C26_Witness ==
    /\ obs.op = POP_AF /\ obs.prev = PUSH_BC /\ ~gb.failed
    /\ obs.pushed = 65535
    /\ cpu.registers.a = 255
    /\ cpu.registers.f = 240


-----------------------------------------------------------------------------
(* SpecUndefined: an undefined opcode executed at the entry point or after *)
(* an instruction that sets IME, A or SP.  obs records the machine before  *)
(* the last instruction.                                                   *)

UndefinedPreludes == {<<>>, <<EI>>, <<LD_A_D8, 90>>, LdSp(13 * 4096)}

UndefinedPrograms ==
    {prelude \o <<opcode, NOP, HALT>> :
        prelude \in UndefinedPreludes, opcode \in UndefinedOpcodes}

InitUndefined ==
    /\ \E code \in UndefinedPrograms : Holds(GameBoy_load(GameBoy_new, Image(code, NOP, 0, 0)))
    /\ obs = [op |-> -1, m |-> 0, pre |-> GameBoy_new]

UndefinedTick ==
    /\ gb.loaded /\ ~gb.failed /\ ~cpu.halted
    /\ NextOpcodeModelled(Machine)
    /\ \E c \in {Cpu_execute(Machine)} :
          /\ Becomes(c.s)
          /\ obs' = [op |-> c.opcode, m |-> c.m, pre |-> Machine]

NextUndefined == UndefinedTick

SpecUndefined == InitUndefined /\ [][NextUndefined]_vars

\* C27: executing an undefined opcode completes without failure, returns one
\* machine cycle, moves PC on by one and changes no other register, flag, SP,
\* IME, the halt state or any memory byte; the timers advance by the one
\* machine cycle, as for every instruction.
C27_UndefinedNoOp ==
    obs.op \in UndefinedOpcodes =>
        /\ ~gb.failed
        /\ obs.m = 1
        /\ cpu = [obs.pre.cpu EXCEPT !.registers.pc = Wrap16(obs.pre.cpu.registers.pc + 1)]
        /\ bus = obs.pre.bus
        /\ ppu = obs.pre.ppu
        /\ apu = obs.pre.apu
        /\ io = Cpu_handle_timers(obs.pre, 1).io
        /\ [io EXCEPT !.cpu_clock = 0, !.div = 0] = [obs.pre.io EXCEPT !.cpu_clock = 0, !.div = 0]

\* 0xE3 executed after EI: IME is still set and PC is behind the opcode
C27_Witness ==
    /\ obs.op = 227 /\ ~gb.failed
    /\ obs.pre.cpu.interrupts_master_enable
    /\ cpu.interrupts_master_enable
    /\ cpu.registers.pc = ENTRY_POINT + 2


-----------------------------------------------------------------------------
(* SpecJoypad: button presses and releases from the front end and writes   *)
(* of the select bits to 0xFF00.  obs records the last operation, the      *)
(* registers before it and the buttons held down.                          *)

MaxJoypadOps == 3

\* both nibbles; the actions; the directions; neither
SelectValues == {0, 16, 32, 48}

InitJoypad ==
    /\ Holds(GameBoy_load(GameBoy_new, Image(<<NOP>>, NOP, 0, 0)))
    /\ obs = [op |-> "load", button |-> "none", n |-> 0, down |-> {},
              pre |-> IoRegisters_new]

JoypadPressed(button) ==
    /\ gb.loaded /\ ~gb.failed
    /\ obs.n < MaxJoypadOps
    /\ Becomes(GameBoy_button_pressed(Machine, button))
    /\ obs' = [op |-> "pressed", button |-> button, n |-> obs.n + 1,
               down |-> obs.down \cup {button}, pre |-> io]

JoypadReleased(button) ==
    /\ gb.loaded /\ ~gb.failed
    /\ obs.n < MaxJoypadOps
    /\ Becomes(GameBoy_button_released(Machine, button))
    /\ obs' = [op |-> "released", button |-> button, n |-> obs.n + 1,
               down |-> obs.down \ {button}, pre |-> io]

JoypadSelect(value) ==
    /\ gb.loaded /\ ~gb.failed
    /\ obs.n < MaxJoypadOps
    /\ Becomes(Bus_write(Machine, 65280, value))
    /\ obs' = [op |-> "select", button |-> "none", n |-> obs.n + 1,
               down |-> obs.down, pre |-> io]

NextJoypad ==
    \/ \E button \in Buttons : JoypadPressed(button)
    \/ \E button \in Buttons : JoypadReleased(button)
    \/ \E value \in SelectValues : JoypadSelect(value)

SpecJoypad == InitJoypad /\ [][NextJoypad]_vars

\* the nibble with bit 0 for every button of the set that is held down
RECURSIVE NibbleOf(_, _)
NibbleOf(down, buttons) ==
    IF buttons = {} THEN 15
    ELSE LET b == CHOOSE b \in buttons : TRUE
         IN NibbleOf(down, buttons \ {b}) - (IF b \in down THEN Pow2(ButtonBit(b)) ELSE 0)

Directions == {b \in Buttons : ButtonIsDirection(b)}

\* the bit of the button among the eight bits directions + 16 * actions
ShadowBits(r) == r.joyp_directions + 16 * r.joyp_actions

ShadowBit(button) == ButtonBit(button) + (IF ButtonIsDirection(button) THEN 0 ELSE 4)

\* bit k of the surfaced nibble went from 1 to 0 in the last operation
SurfacedEdge == \E k \in 0..3 : Test(obs.pre.joyp, k) /\ ~Test(io.joyp, k)

-----------------------------------------------------------------------------
(* The order of the STAT modes, under SpecPpu.  A dot is one PPU clock,    *)
(* one Ppu::tick call: the call after n calls handles dot n % 456 of line  *)
(* (n \div 456) % 154, and the mode it leaves in STAT is the mode of that  *)
(* dot.                                                                    *)

OAM_SCAN_DOTS == 80
VISIBLE_LINES == 144

\* the changes of the mode bits the PPU may make: (from, to)
ModeOrder == {<<2, 3>>, <<3, 0>>, <<0, 2>>, <<0, 1>>, <<1, 2>>}

\* the tick of this step, with the LCD enabled
LcdTick == obs'.op = "ppu_tick" /\ ~gb'.failed /\ LcdcContains(io, LCD_PPU_ENABLE)

\* the mode bits change in this step from mode a to mode b
ModeStep(a, b) == StatMode(io.stat) = a /\ StatMode(io'.stat) = b

\* the tick of this step handles dot d: the modes follow the order, V-blank
\* begins with the line after the last visible one and ends with the
\* frame, an OAM scan begins with dot 0 of a line and lasts for its first
\* 80 dots
ModeOrderAt(d) ==
    /\ StatMode(io.stat) # StatMode(io'.stat) =>
          <<StatMode(io.stat), StatMode(io'.stat)>> \in ModeOrder
    /\ ModeStep(0, 1) => d = VISIBLE_LINES * LINE_DOTS
    /\ ModeStep(1, 2) => d = 0
    /\ ModeStep(0, 2) => d % LINE_DOTS = 0
    /\ StatMode(io'.stat) = 2 <=>
          (d \div LINE_DOTS < VISIBLE_LINES /\ d % LINE_DOTS < OAM_SCAN_DOTS)

\* C29: with the LCD enabled, the STAT mode bits change only along
\* OAM-scan(2) -> pixel-transfer(3) -> H-blank(0) on a visible line,
\* H-blank(0) -> OAM-scan(2) for the next visible line, H-blank(0) ->
\* V-blank(1) after line 143 and V-blank(1) -> OAM-scan(2) at the frame
\* wrap; counting one dot per Ppu.tick call, the OAM scan covers dots 0..79
\* of a visible line and every line lasts 456 dots.
C29_ModeOrder == [][LcdTick => ModeOrderAt(obs.ticks % FRAME_DOTS)]_vars

\* the same statement with the dots read off the PPU's own dot counter
C29_OrderByDotCounter == [][LcdTick => ModeOrderAt(ppu.dot_counter)]_vars

\* the call that handles dot 0 of line 1 leaves the PPU in the H-blank of
\* line 0, its dot counter behind the calls made
C29_LineOverrun ==
    /\ obs.op = "ppu_tick" /\ ~gb.failed
    /\ obs.ticks = LINE_DOTS + 1
    /\ StatMode(io.stat) = 0
    /\ ppu.dot_counter < LINE_DOTS

-----------------------------------------------------------------------------
(* SpecLcd: the PPU driven dot by dot from the power-up state while the    *)
(* CPU writes LCDC and STAT.  A script lists the writes of a behaviour in  *)
(* order, each with the value of the PPU's dot counter at which it lands   *)
(* (between two Ppu::tick calls); a tick separates two writes.  With the   *)
(* LCD switched off the dot counter stands still, so a write that follows  *)
(* at the same dot switches it back on.  obs records the last operation,   *)
(* the script, the next write of it and the result of the last tick.       *)

LCDC_ADDR == 65344
STAT_ADDR == 65345

\* a write of the script: bus.mem_write(addr, value) when dot_counter = dot
LcdWrite(dot, addr, value) == [dot |-> dot, addr |-> addr, value |-> value]

\* dot d of line l
DotOf(l, d) == l * LINE_DOTS + d

LcdScripts ==
    { <<>>,
      \* STAT written during the OAM scan of line 0
      << LcdWrite(DotOf(0, 40), STAT_ADDR, 8) >>,
      \* the LCD off and on again during the pixel transfer of line 0
      << LcdWrite(DotOf(0, 100), LCDC_ADDR, 17), LcdWrite(DotOf(0, 100), LCDC_ADDR, 145) >>,
      \* the window and 8x16 objects switched on at the start of line 2
      << LcdWrite(DotOf(2, 0), LCDC_ADDR, 145 + 32 + 4 + 2) >>,
      \* the LCD off for good in the H-blank of line 143
      << LcdWrite(DotOf(143, 300), LCDC_ADDR, 17) >>,
      \* STAT written in V-blank, at line 145 and again at line 150
      << LcdWrite(DotOf(145, 10), STAT_ADDR, 64), LcdWrite(DotOf(150, 10), STAT_ADDR, 0) >>,
      \* the LCD off and on again at the last dot of the frame
      << LcdWrite(FRAME_DOTS - 1, LCDC_ADDR, 17), LcdWrite(FRAME_DOTS - 1, LCDC_ADDR, 145) >>,
      \* STAT written on every line from 140 to the end of the frame
      [i \in 1..14 |-> LcdWrite(DotOf(139 + i, 200), STAT_ADDR, 40)] }

InitLcd ==
    /\ Holds(GameBoy_new)
    /\ \E script \in LcdScripts :
          obs = [op |-> "init", script |-> script, pc |-> 1, result |-> FALSE]

\* the next write of the script lands now
LcdWriteDue ==
    /\ obs.pc <= Len(obs.script)
    /\ ppu.dot_counter = obs.script[obs.pc].dot
    /\ obs.op # "write"

LcdDot ==
    /\ ~gb.failed
    /\ ~LcdWriteDue
    /\ ~Ppu_tick_panics(ppu, io)
    /\ \E t \in {Ppu_tick(ppu, io)} :
          /\ ppu' = t.ppu
          /\ io' = t.io
          /\ obs' = [obs EXCEPT !.op = "ppu_tick", !.result = t.result]
    /\ UNCHANGED <<cpu, bus, apu, gb, cart>>

LcdCpuWrite ==
    /\ ~gb.failed
    /\ LcdWriteDue
    /\ Becomes(Bus_write(Machine, obs.script[obs.pc].addr, obs.script[obs.pc].value))
    /\ obs' = [obs EXCEPT !.op = "write", !.pc = obs.pc + 1, !.result = FALSE]

NextLcd ==
    \/ LcdDot
    \/ LcdCpuWrite

SpecLcd == InitLcd /\ [][NextLcd]_vars

\* C30: after every Ppu.tick, whatever the CPU has written to LCDC and STAT
\* before it, the dot counter is in 0..70223 and LY is in 0..153.
C30_Ranges ==
    (obs.op = "ppu_tick" /\ ~gb.failed) =>
        /\ ppu.dot_counter \in 0..(FRAME_DOTS - 1)
        /\ io.ly \in 0..153

\* the LCD was switched off and on again on line 0: the tick that handles
\* the last dot but one of the frame leaves the dot counter and LY at their
\* maxima
C30_Witness ==
    /\ obs.op = "ppu_tick" /\ ~gb.failed
    /\ Len(obs.script) = 2 /\ obs.pc = 3 /\ obs.script[1].dot = DotOf(0, 100)
    /\ ppu.dot_counter = FRAME_DOTS - 1
    /\ io.ly = 153

-----------------------------------------------------------------------------
(* PixelFetcher (pixel_fetcher.rs): the pixel fetcher kept in a file of    *)
(* its own, with a background FIFO of BgPixel {x, color} and an object     *)
(* FIFO of SpritePixel.  Its Oam carries x, y and oam_addr, the address    *)
(* of the entry in OAM.                                                    *)

BG_FIFO_CAPACITY == 16
OBJ_FIFO_CAPACITY == 8

\* PixelFetcher::new
Fetcher_new ==
    [dot_counter |-> 2,
     current_tile_map_line_addr |-> 38912,
     current_tile_index |-> 0,
     current_tile_row_offset |-> 0,
     state |-> [tag |-> "GetTileId"],
     mode |-> [tag |-> "Background"],
     bg_fifo |-> <<>>,
     obj_fifo |-> <<>>]

\* is_empty with room for a third row
Fetcher_is_empty_sixteen(f) == Len(f.bg_fifo) <= 16

\* PixelFetcher::is_empty
Fetcher_is_empty(f) == Len(f.bg_fifo) <= 8

\* PixelFetcher::clear
Fetcher_clear(f) == [f EXCEPT !.state = [tag |-> "GetTileId"], !.bg_fifo = <<>>, !.obj_fifo = <<>>]

\* the pixel of column i of an object row
FetcherObjPixel(f, r, lo, hi, attributes, i) ==
    [x |-> f.mode.oam.x - 8 + i,
     color |-> IF Test(attributes, 5) THEN TilePixelFlipped(lo, hi, i) ELSE TilePixel(lo, hi, i),
     bg_over_obj |-> Test(attributes, 7),
     palette |-> IF ~Test(attributes, 4) THEN r.obp0 ELSE r.obp1]

\* the loop over insert_pixel, from column i on: slot i - sprite_offset is
\* left alone when the FIFO has it, and the pixel is pushed otherwise
RECURSIVE FetcherInsertPixels(_, _, _, _, _, _, _)
FetcherInsertPixels(fifo, f, r, lo, hi, attributes, i) ==
    IF i > 7 THEN fifo
    ELSE FetcherInsertPixels(
            IF i - f.mode.sprite_offset < Len(fifo) THEN fifo
            ELSE Append(fifo, FetcherObjPixel(f, r, lo, hi, attributes, i)),
            f, r, lo, hi, attributes, i + 1)

\* the eight background pixels of a row
FetcherBgRow(f, lo, hi) ==
    [i \in 1..8 |-> [x |-> (IF f.mode.tag = "Background" THEN f.current_tile_index * 8 ELSE 0)
                           + (i - 1),
                     color |-> TilePixel(lo, hi, i - 1)]]

\* PixelFetcher::push_pixels: the fetcher it leaves and the value it returns
Fetcher_push_pixels(f, r, lo, hi, sprite_attributes) ==
    IF f.mode.tag = "Object"
    THEN [f |-> [f EXCEPT !.obj_fifo = FetcherInsertPixels(f.obj_fifo, f, r, lo, hi,
                                                           sprite_attributes, f.mode.sprite_offset)],
          pushed |-> TRUE]
    ELSE IF Fetcher_is_empty(f)
    THEN [f |-> [f EXCEPT !.bg_fifo = f.bg_fifo \o FetcherBgRow(f, lo, hi)], pushed |-> TRUE]
    ELSE [f |-> f, pushed |-> FALSE]

\* the address of the low byte of the tile row (GetTileRowLow)
FetcherRowAddress(f, r) ==
    IF f.mode.tag = "Background"
    THEN LET bit_12 == IF ~(LcdcContains(r, BG_TILEDATA_AREA) \/ Test(f.state.tile_index, 7))
                       THEN 1 ELSE 0
         IN 32768 + bit_12 * 4096 + f.state.tile_index * 16 + f.current_tile_row_offset * 2
    ELSE LET row == Wrap8(r.ly - (f.mode.oam.y % 8)) % 8
             row_offset == IF Test(f.state.sprite_attributes, 6) THEN 7 - row ELSE row
         IN 32768 + f.state.tile_index * 16 + row_offset * 2

\* the step of the state machine, every second tick
Fetcher_step(f, v, r) ==
    CASE f.state.tag = "GetTileId" ->
           IF f.mode.tag = "Object"
           THEN [f EXCEPT !.state = [tag |-> "GetSpriteAttributes",
                                     tile_index |-> Vram_mem_read(v, f.mode.oam.oam_addr + 2)]]
           ELSE [f EXCEPT !.state =
                    [tag |-> "GetTileRowLow", sprite_attributes |-> 0,
                     tile_index |-> Vram_mem_read(v, f.current_tile_map_line_addr
                                                      + f.current_tile_index)]]
      [] f.state.tag = "GetSpriteAttributes" ->
           LET attributes == Vram_mem_read(v, f.mode.oam.oam_addr + 3)
               upper == r.ly + 16 - f.mode.oam.y < 8
               tile_index == IF LcdcContains(r, OBJ_SIZE)
                             THEN IF Test(attributes, 6) = upper
                                  THEN Or8(f.state.tile_index, 1)
                                  ELSE And8(f.state.tile_index, 254)
                             ELSE f.state.tile_index
           IN [f EXCEPT !.state = [tag |-> "GetTileRowLow", sprite_attributes |-> attributes,
                                   tile_index |-> tile_index]]
      [] f.state.tag = "GetTileRowLow" ->
           LET tile_address == FetcherRowAddress(f, r)
           IN [f EXCEPT !.state = [tag |-> "GetTileRowHigh",
                                   sprite_attributes |-> f.state.sprite_attributes,
                                   tile_address |-> tile_address,
                                   tile_byte_lo |-> Vram_mem_read(v, tile_address)]]
      [] f.state.tag = "GetTileRowHigh" ->
           LET lo == f.state.tile_byte_lo
               hi == Vram_mem_read(v, f.state.tile_address + 1)
               waiting == [f EXCEPT !.state = [tag |-> "PushPixels",
                                               sprite_attributes |-> f.state.sprite_attributes,
                                               tile_byte_lo |-> lo, tile_byte_hi |-> hi]]
           IN IF f.mode.tag = "Background"
              THEN LET t == Fetcher_push_pixels(f, r, lo, hi, f.state.sprite_attributes)
                   IN IF t.pushed
                      THEN [t.f EXCEPT !.state = [tag |-> "GetTileId"],
                                       !.current_tile_index = (f.current_tile_index + 1) % 32]
                      ELSE waiting
              ELSE waiting
      [] OTHER ->
           LET t == Fetcher_push_pixels(f, r, f.state.tile_byte_lo, f.state.tile_byte_hi,
                                        f.state.sprite_attributes)
           IN IF t.pushed
              THEN [t.f EXCEPT !.state = [tag |-> "GetTileId"],
                               !.mode = [tag |-> "Background"],
                               !.current_tile_index =
                                   IF f.mode.tag = "Background"
                                   THEN (f.current_tile_index + 1) % 32
                                   ELSE f.current_tile_index]
              ELSE f

\* PixelFetcher::tick
Fetcher_tick(f, v, r) ==
    IF f.dot_counter - 1 = 0
    THEN Fetcher_step([f EXCEPT !.dot_counter = 2], v, r)
    ELSE [f EXCEPT !.dot_counter = f.dot_counter - 1]

\* PixelFetcher::fetch_bg_tile
Fetcher_fetch_bg_tile(f, tile_map_line_addr, tile_x, tile_row_offset) ==
    [f EXCEPT !.dot_counter = 2,
              !.current_tile_map_line_addr = tile_map_line_addr,
              !.current_tile_index = tile_x,
              !.current_tile_row_offset = tile_row_offset,
              !.state = [tag |-> "GetTileId"],
              !.mode = [tag |-> "Background"],
              !.bg_fifo = <<>>]

\* PixelFetcher::fetch_obj_tile
Fetcher_fetch_obj_tile(f, oam, sprite_offset) ==
    [f EXCEPT !.state = [tag |-> "GetTileId"],
              !.mode = [tag |-> "Object", oam |-> oam, sprite_offset |-> sprite_offset]]


-----------------------------------------------------------------------------
(* SpecFetcher: the pixel fetcher of pixel_fetcher.rs on its own.  ppu     *)
(* holds the parts of its Ppu that the file shows: the video memory it     *)
(* reads and the fetcher; io holds the registers it reads.  Its Ppu is     *)
(* the only user of the two FIFOs; as the Ppu of ppu.rs does, it pops      *)
(* pixels from their fronts, clears them and starts fetches.  obs records  *)
(* the last operation and the fetcher before it.                           *)

\* tile data: row 0 and row 7 of tile 0, row 0 of tile 1
FetcherTileData ==
    {<<32768, 165>>, <<32769, 60>>, <<32768 + 14, 15>>, <<32768 + 15, 255>>, <<32768 + 16, 129>>}

\* OAM: two entries, <<y, x, tile, attributes>>, the first mirrored, the
\* second behind the background with OBP1
FetcherOam ==
    {<<65024, 16>>, <<65025, 8>>, <<65026, 0>>, <<65027, 32>>,
     <<65028, 16>>, <<65029, 12>>, <<65030, 1>>, <<65031, 128 + 16>>}

FetcherSprites ==
    {[x |-> 8, y |-> 16, oam_addr |-> 65024], [x |-> 12, y |-> 16, oam_addr |-> 65028]}

SpriteOffsets == {0, 3}
FetcherTiles == {31}
FetcherRows == {0, 7}

\* ticks of a behaviour, and calls of clear, fetch_bg_tile and fetch_obj_tile
MaxFetcherTicks == 40
MaxFetcherCalls == 1

\* video memory with the bytes of a set of <<address, value>> written
RECURSIVE VideoFilled(_, _)
VideoFilled(v, bytes) ==
    IF bytes = {} THEN v
    ELSE LET b == CHOOSE b \in bytes : TRUE
         IN VideoFilled(Vram_mem_write(v, b[1], b[2]), bytes \ {b})

InitFetcher ==
    /\ ppu = [vram |-> VideoFilled(Ppu_new, FetcherTileData).vram,
              oam |-> VideoFilled(Ppu_new, FetcherOam).oam,
              pixel_fetcher |-> Fetcher_new]
    /\ cpu = GameBoy_new.cpu /\ io = GameBoy_new.io /\ bus = GameBoy_new.bus
    /\ apu = GameBoy_new.apu
    /\ gb = [loaded |-> GameBoy_new.loaded, failed |-> GameBoy_new.failed]
    /\ cart = NoCartridge
    /\ obs = [op |-> "init", pre |-> Fetcher_new, ticks |-> 0, calls |-> 0]

\* the fetcher becomes f by operation op
FetcherBecomes(op, f) ==
    /\ ppu' = [ppu EXCEPT !.pixel_fetcher = f]
    /\ obs' = [op |-> op, pre |-> ppu.pixel_fetcher,
               ticks |-> obs.ticks + (IF op = "tick" THEN 1 ELSE 0),
               calls |-> obs.calls + (IF op \in {"clear", "fetch_bg", "fetch_obj"} THEN 1 ELSE 0)]
    /\ UNCHANGED <<cpu, io, bus, apu, gb, cart>>

FetcherTick ==
    /\ obs.ticks < MaxFetcherTicks
    /\ FetcherBecomes("tick", Fetcher_tick(ppu.pixel_fetcher, ppu, io))

FetcherPopBg ==
    /\ ppu.pixel_fetcher.bg_fifo # <<>>
    /\ FetcherBecomes("pop_bg", [ppu.pixel_fetcher EXCEPT !.bg_fifo = Tail(@)])

FetcherPopObj ==
    /\ ppu.pixel_fetcher.obj_fifo # <<>>
    /\ FetcherBecomes("pop_obj", [ppu.pixel_fetcher EXCEPT !.obj_fifo = Tail(@)])

FetcherClear ==
    /\ obs.calls < MaxFetcherCalls
    /\ FetcherBecomes("clear", Fetcher_clear(ppu.pixel_fetcher))

FetcherFetchBg(tile_x, tile_row_offset) ==
    /\ obs.calls < MaxFetcherCalls
    /\ FetcherBecomes("fetch_bg",
                      Fetcher_fetch_bg_tile(ppu.pixel_fetcher, 38912, tile_x, tile_row_offset))

FetcherFetchObj(oam, sprite_offset) ==
    /\ obs.calls < MaxFetcherCalls
    /\ FetcherBecomes("fetch_obj", Fetcher_fetch_obj_tile(ppu.pixel_fetcher, oam, sprite_offset))

NextFetcher ==
    \/ FetcherTick
    \/ FetcherPopBg
    \/ FetcherPopObj
    \/ FetcherClear
    \/ \E tile_x \in FetcherTiles, tile_row_offset \in FetcherRows :
          FetcherFetchBg(tile_x, tile_row_offset)
    \/ \E oam \in FetcherSprites, sprite_offset \in SpriteOffsets :
          FetcherFetchObj(oam, sprite_offset)

SpecFetcher == InitFetcher /\ [][NextFetcher]_vars

\* the tick obs describes was one in which the fetcher had a background
\* row to push
RowDue ==
    /\ obs.op = "tick"
    /\ obs.pre.dot_counter = 1
    /\ obs.pre.mode.tag = "Background"
    /\ obs.pre.state.tag \in {"GetTileRowHigh", "PushPixels"}

\* C31: the background FIFO holds at most 16 entries and the object FIFO
\* at most 8; a tick pushes a row of 8 background pixels only onto a FIFO
\* of at most 8 entries, and a tick with a row to push and more than 8
\* entries in the FIFO leaves the FIFO as it is and the fetcher in
\* PushPixels with the fetched row.
C31_FifoBounds ==
    LET f == ppu.pixel_fetcher
    IN /\ Len(f.bg_fifo) <= BG_FIFO_CAPACITY
       /\ Len(f.obj_fifo) <= OBJ_FIFO_CAPACITY
       /\ (obs.op = "tick" /\ f.bg_fifo # obs.pre.bg_fifo) =>
             /\ RowDue
             /\ Len(obs.pre.bg_fifo) <= 8
             /\ Len(f.bg_fifo) = Len(obs.pre.bg_fifo) + 8
             /\ SubSeq(f.bg_fifo, 1, Len(obs.pre.bg_fifo)) = obs.pre.bg_fifo
       /\ (RowDue /\ Len(obs.pre.bg_fifo) > 8) =>
             /\ f.bg_fifo = obs.pre.bg_fifo
             /\ f.state.tag = "PushPixels"
             /\ f.state.tile_byte_lo = obs.pre.state.tile_byte_lo
             /\ f.state.tile_byte_hi =
                   IF obs.pre.state.tag = "PushPixels" THEN obs.pre.state.tile_byte_hi
                   ELSE Vram_mem_read(ppu, obs.pre.state.tile_address + 1)

\* a full background FIFO and a full object FIFO, the fetcher waiting in
\* PushPixels with a third row
C31_Witness ==
    /\ RowDue
    /\ Len(ppu.pixel_fetcher.bg_fifo) = BG_FIFO_CAPACITY
    /\ Len(ppu.pixel_fetcher.obj_fifo) = OBJ_FIFO_CAPACITY
    /\ ppu.pixel_fetcher.state.tag = "PushPixels"
    /\ obs.pre.state.tag = "PushPixels"

-----------------------------------------------------------------------------
(* SpecMerge: the PPU of ppu.rs driven dot by dot over the first scanline  *)
(* with two sprites on line 0, tile data for them and for the background   *)
(* in VRAM, three different palettes, and LCDC bits 0 and 1 (background    *)
(* and objects enabled) in every combination.  obs records the calls made  *)
(* and the Ppu and registers before the last one.                          *)

MaxMergeTicks == 700

\* row 0 of tile 0 (the background): colours 0 0 0 0 1 1 1 1; row 0 of
\* tile 1: colours 1 0 1 1 0 1 0 1; row 0 of tile 2: 3 3 2 2 1 0 1 0
MergeTileData ==
    {<<32768, 15>>, <<32768 + 16, 181>>, <<32768 + 17, 0>>,
     <<32768 + 32, 202>>, <<32768 + 33, 240>>}

\* the two sprites: <<y, x, tile, attributes>> of OAM entries 0 and 1
MergeLayouts ==
    { <<<<16, 8, 1, 0>>, <<16, x, 2, a>>>> : x \in {8, 12, 16}, a \in {0, 128 + 16, 32} }

MergeOam(layout) ==
    UNION { {<<65024 + 4 * (k - 1) + (j - 1), layout[k][j]>> : j \in 1..4} : k \in 1..2 }

\* LCDC with the LCD on, tile data at 0x8000, and bits 0 and 1 as chosen
MergeLcdc == {144, 145, 146, 147}

\* BGP maps colour c to c, OBP0 to 3 - c, OBP1 to (c + 2) % 4
MergePalettes == <<<<65351, 228>>, <<65352, 27>>, <<65353, 78>>>>

RECURSIVE RegistersWritten(_, _)
RegistersWritten(r, writes) ==
    IF writes = <<>> THEN r
    ELSE RegistersWritten(IoRegisters_mem_write(r, Head(writes)[1], Head(writes)[2]), Tail(writes))

InitMerge ==
    /\ \E layout \in MergeLayouts, lcdc \in MergeLcdc :
          Holds([GameBoy_new EXCEPT
                    !.ppu = VideoFilled(Ppu_new, MergeTileData \cup MergeOam(layout)),
                    !.io = RegistersWritten(IoRegisters_new,
                                            <<<<65344, lcdc>>>> \o MergePalettes)])
    /\ obs = [op |-> "init", n |-> 0, pre |-> [ppu |-> ppu, io |-> io]]

MergeTick ==
    /\ ~gb.failed
    /\ obs.n < MaxMergeTicks
    /\ ~Ppu_tick_panics(ppu, io)
    /\ \E t \in {Ppu_tick(ppu, io)} :
          /\ ppu' = t.ppu
          /\ io' = t.io
          /\ obs' = [op |-> "ppu_tick", n |-> obs.n + 1, pre |-> [ppu |-> ppu, io |-> io]]
    /\ UNCHANGED <<cpu, bus, apu, gb, cart>>

NextMerge == MergeTick

SpecMerge == InitMerge /\ [][NextMerge]_vars

\* the tick obs describes merged the row of a sprite into the object FIFO
Merged ==
    /\ obs.op = "ppu_tick" /\ ~gb.failed
    /\ obs.pre.ppu.pixel_fetcher.state.tag = "PushPixels"
    /\ obs.pre.ppu.pixel_fetcher.mode.tag = "Object"
    /\ ppu.pixel_fetcher.state.tag = "Sleep"

\* the pixels of the merged sprite, by column
MergedPixels ==
    ObjPixels(obs.pre.ppu.pixel_fetcher.mode, obs.pre.ppu.pixel_fetcher.state.tile_byte_lo,
              obs.pre.ppu.pixel_fetcher.state.tile_byte_hi, io)

\* colour, palette and priority of a pixel
PixelLook(q) == <<q.color, q.palette, q.bg_over_obj>>

\* C32: when the row of a sprite is merged into the object FIFO, a slot
\* that held a non-transparent pixel keeps its colour, palette and
\* priority, and a slot that was empty or held a transparent pixel holds
\* afterwards the sprite's pixel for the screen position of the slot, when
\* that pixel is not transparent.  Slot k holds screen position
\* scanline_x + k - 1.
C32_Merge ==
    Merged =>
        LET old == obs.pre.ppu.pixel_fetcher.obj_fifo
            new == ppu.pixel_fetcher.obj_fifo
        IN /\ \A k \in 1..Len(old) :
                 old[k].color # 0 => (k <= Len(new) /\ PixelLook(new[k]) = PixelLook(old[k]))
           /\ \A i \in 1..8 :
                 LET q == MergedPixels[i]
                     k == q.x - obs.pre.ppu.scanline_x + 1
                 IN (q.color # 0 /\ k \in 1..8 /\ (k > Len(old) \/ old[k].color = 0)) =>
                       (k <= Len(new) /\ PixelLook(new[k]) = PixelLook(q))

\* the second sprite, 4 columns to the right of the first, is merged at
\* column 4: the slot of column 8 was empty and holds the sprite's pixel of
\* column 6 afterwards
C32_Misaligned ==
    /\ Merged
    /\ obs.pre.ppu.scanline_x = 4
    /\ Len(obs.pre.ppu.pixel_fetcher.obj_fifo) = 4
    /\ MergedPixels[5].x = 8 /\ MergedPixels[5].color = 1
    /\ ppu.pixel_fetcher.obj_fifo[5].color = 2
    /\ ppu.pixel_fetcher.obj_fifo[5].x = 6

-----------------------------------------------------------------------------
(* The pixel mixer, under SpecMerge.                                       *)

\* the colour a palette gives colour index c
PaletteColour(palette, c) == (palette \div Pow2(c * 2)) % 4

\* the tick obs describes emitted the pixel of column obs.pre.ppu.scanline_x
Emitted ==
    /\ obs.op = "ppu_tick" /\ ~gb.failed
    /\ StatMode(obs.pre.io.stat) = 3
    /\ ppu.scanline_x # obs.pre.ppu.scanline_x

\* the FIFOs the mixer pops from: those of the fetcher after its tick
MixerFetcher == PixelFetcher_tick(obs.pre.ppu.pixel_fetcher, obs.pre.ppu, obs.pre.io)

\* the background colour popped
MixerBg == Head(MixerFetcher.bg_fifo)

\* the object pixels not yet passed; the first is the one popped
MixerObj == DropStaleObjPixels(MixerFetcher.obj_fifo, obs.pre.ppu.scanline_x)

\* the pixel written to the screen
MixerOutput == MemGet(ppu.screen, obs.pre.io.ly * 160 + obs.pre.ppu.scanline_x)

\* the output the mixing rules give for background colour bg and the
\* object pixels objs, of which the first is the one for this column
MixerRule(r, bg, objs) ==
    LET bg_colour == IF LcdcContains(r, BG_WINDOW_ENABLE) THEN bg ELSE 0
    IN IF ~LcdcContains(r, OBJ_ENABLE) \/ objs = <<>> THEN PaletteColour(r.bgp, bg_colour)
       ELSE IF Head(objs).color = 0 THEN PaletteColour(r.bgp, bg_colour)
       ELSE IF Head(objs).bg_over_obj /\ bg_colour # 0 THEN PaletteColour(r.bgp, bg_colour)
       ELSE PaletteColour(Head(objs).palette, Head(objs).color)

\* C33: every pixel emitted is the one the mixing rules give: with LCDC
\* bit 0 clear the background colour counts as 0; with objects disabled or
\* a transparent object pixel (or none) the output is BGP[bg]; with the
\* BG-over-OBJ flag set and bg # 0 it is BGP[bg]; otherwise it is the
\* object colour through the object's palette, OBP0 or OBP1.
C33_Mixer ==
    Emitted => MixerOutput = MixerRule(obs.pre.io, MixerBg, MixerObj)

\* background disabled, objects enabled, a transparent object pixel in
\* column 1 of line 0: the screen shows OBP0[0] = 3, not BGP[0] = 0
C33_TransparentDrawn ==
    /\ Emitted
    /\ ~LcdcContains(io, BG_WINDOW_ENABLE) /\ LcdcContains(io, OBJ_ENABLE)
    /\ obs.pre.io.ly = 0 /\ obs.pre.ppu.scanline_x = 1
    /\ MixerObj # <<>> /\ Head(MixerObj).color = 0 /\ Head(MixerObj).x = 1
    /\ MixerOutput = 3
    /\ PaletteColour(io.bgp, 0) = 0


\* the mixing rules hold for every emitted pixel but the transparent object
\* pixels met with the background disabled
C33_MixerWithBackground ==
    (Emitted /\ ~(/\ ~LcdcContains(obs.pre.io, BG_WINDOW_ENABLE)
                  /\ MixerObj # <<>> /\ Head(MixerObj).color = 0)) =>
        MixerOutput = MixerRule(obs.pre.io, MixerBg, MixerObj)

-----------------------------------------------------------------------------
(* SpecSweep: engine ticks of a CPU that sets up the sweep of channel 1    *)
(*   LD A,nr10 ; LDH (0x10),A ; LD A,lo ; LDH (0x13),A ;                   *)
(*   LD A,0xC0 + hi ; LDH (0x14),A ; HALT                                  *)
(* (trigger with the length timer enabled; NR12 is 0xF3 from power-up, so  *)
(* the DAC is on and the envelope pace is 3) and stays halted while the    *)
(* frame sequencer runs up to its eighth step.  obs records the last       *)
(* operation, the machine cycles run, and the Apu and DIV before the tick. *)

MaxSweepCycles == 16500

\* NR10 values: pace 1 with slope 1 up and down, pace 1 with slope 7 and
\* slope 0, pace 2, and no sweep
SweepValues == {17, 25, 23, 16, 33, 0}

\* periods written to NR13 and NR14
SweepPeriods == {256, 1024, 1365, 2047}

SweepProgram(nr10, period) ==
    Out(16, nr10) \o Out(19, period % 256) \o Out(20, 128 + 64 + period \div 256)
    \o <<HALT, NOP, NOP>>

InitSweep ==
    \E nr10 \in SweepValues, period \in SweepPeriods :
        /\ Holds(GameBoy_load(GameBoy_new, Image(SweepProgram(nr10, period), NOP, 0, 0)))
        /\ obs = [op |-> "load", cycles |-> 0, pre |-> [apu |-> apu, div |-> io.div]]

SweepEngineTick ==
    /\ gb.loaded /\ ~gb.failed
    /\ obs.cycles < MaxSweepCycles
    /\ NextOpcodeModelled(Machine)
    /\ \E t \in {GameBoy_tick(Machine)} :
          /\ Becomes(t.s)
          /\ obs' = [op |-> IF cpu.halted THEN "tick" ELSE "instruction",
                     cycles |-> obs.cycles + t.m,
                     pre |-> [apu |-> apu, div |-> io.div]]

NextSweep == SweepEngineTick

SpecSweep == InitSweep /\ [][NextSweep]_vars

\* the last tick stepped the frame sequencer
Stepped == apu.div_apu = Wrap8(obs.pre.apu.div_apu + 1)

\* what the subsystems keep, by which a clock of theirs shows
LengthState(a) ==
    <<a.ch1_length_timer, a.ch2_length_timer, a.ch3_length_timer, a.ch4_length_timer>>

EnvelopeState(a) ==
    <<a.ch1_envelope_sweep_counter, a.ch1_volume, a.ch2_envelope_sweep_counter, a.ch2_volume,
      a.ch4_envelope_sweep_counter, a.ch4_volume>>

SweepState(a) == <<a.ch1_freq_sweep_counter, a.nr13, a.nr14>>

\* C34: the DIV-APU counter steps by one in a tick exactly when bit 4 of
\* DIV was 1 before the tick and is 0 after it, and stays as it is in every
\* other tick; the length timers move only in a step that leaves DIV-APU
\* even, the envelopes only in one that leaves it a multiple of 8, the
\* sweep of channel 1 only in one that leaves it a multiple of 4.
C34_FrameSequencer ==
    (obs.op \in {"tick", "instruction"} /\ ~gb.failed) =>
        /\ IF Test(obs.pre.div, 4) /\ ~Test(io.div, 4)
           THEN Stepped
           ELSE apu.div_apu = obs.pre.apu.div_apu
        /\ obs.op = "tick" =>
              /\ LengthState(apu) # LengthState(obs.pre.apu) =>
                    (Stepped /\ apu.div_apu % 2 = 0)
              /\ EnvelopeState(apu) # EnvelopeState(obs.pre.apu) =>
                    (Stepped /\ apu.div_apu % 8 = 0)
              /\ SweepState(apu) # SweepState(obs.pre.apu) =>
                    (Stepped /\ apu.div_apu % 4 = 0)

\* the eighth step: the envelope, the length timer and the sweep of channel
\* 1 all move
C34_Witness ==
    /\ obs.op = "tick" /\ ~gb.failed
    /\ Stepped /\ apu.div_apu = 8
    /\ LengthState(apu) # LengthState(obs.pre.apu)
    /\ EnvelopeState(apu) # EnvelopeState(obs.pre.apu)
    /\ SweepState(apu) # SweepState(obs.pre.apu)


\* the last tick ran a sweep step of channel 1: the frame sequencer came to
\* a multiple of 4 and the sweep counter ran out
SweepFired ==
    /\ obs.op = "tick" /\ ~gb.failed
    /\ Stepped /\ apu.div_apu % 4 = 0
    /\ obs.pre.apu.ch1_freq_sweep_pace # 0
    /\ (obs.pre.apu.ch1_freq_sweep_counter + 1) % obs.pre.apu.ch1_freq_sweep_pace = 0

\* the period before the step, and the period the step computes from it
SweepPeriod == (obs.pre.apu.nr14 % 8) * 256 + obs.pre.apu.nr13

SweepNextPeriod ==
    IF obs.pre.apu.ch1_freq_sweep_addition
    THEN SweepPeriod + SweepPeriod \div Pow2(obs.pre.apu.ch1_freq_sweep_slope)
    ELSE SweepPeriod - SweepPeriod \div Pow2(obs.pre.apu.ch1_freq_sweep_slope)

\* C35: a sweep step whose new period exceeds 0x7FF clears the enable bit of
\* channel 1 in NR52 and leaves NR13 and NR14 as they were; any other sweep
\* step leaves the low 8 bits of the new period in NR13 and its high 3 bits
\* in the low 3 bits of NR14.
C35_SweepStep ==
    SweepFired =>
        IF SweepNextPeriod > 2047
        THEN /\ ~Test(apu.nr52, 0)
             /\ apu.nr13 = obs.pre.apu.nr13
             /\ apu.nr14 = obs.pre.apu.nr14
        ELSE /\ apu.nr13 = SweepNextPeriod % 256
             /\ apu.nr14 % 8 = SweepNextPeriod \div 256

\* a sweep step that overflows and has written NR13 all the same
C35_OverflowWritten ==
    /\ SweepFired
    /\ SweepNextPeriod > 2047
    /\ ~Test(apu.nr52, 0)
    /\ apu.nr13 = SweepNextPeriod % 256
    /\ apu.nr13 # obs.pre.apu.nr13

\* What the step does get right: the enable bit is cleared on overflow, NR13
\* takes the low byte of the new period, and the low 3 bits of NR14 take
\* its high bits on top of the bits they held.
C35_SweepStepAsCoded ==
    SweepFired =>
        /\ SweepNextPeriod > 2047 => ~Test(apu.nr52, 0)
        /\ apu.nr13 = SweepNextPeriod % 256
        /\ apu.nr14 = Or8(obs.pre.apu.nr14 % 8, (SweepNextPeriod \div 256) % 256)


-----------------------------------------------------------------------------
(* Bank indices of the MBC1 accesses of SpecCartridge                      *)

\* C36: after any writes to 0x0000..0x7FFF, a read of 0x4000..0x7FFF of an
\* MBC1 cartridge uses a ROM bank below the number of ROM banks, a read or
\* write of 0xA000..0xBFFF with the RAM gate open uses a RAM bank below the
\* number of RAM banks (cartridges without RAM included), and no access
\* aborts.
C36_BanksInRange ==
    (obs.op \in {"read", "write"} /\ obs.pre.mapper = "MBC1") =>
        /\ (obs.op = "read" /\ obs.addr \in 16384..32767) =>
              obs.pre.rom_current_bank < obs.pre.rom_bank_count
        /\ (IsCartridgeRam(obs.addr) /\ obs.pre.ram_enable) =>
              Cartridge_ram_bank(obs.pre) < obs.pre.ram_bank_count
        /\ ~cart.failed

\* a read of 0x4000..0x7FFF with a ROM bank past the last one selected
C36_RomBankPastEnd ==
    /\ obs.op = "read" /\ obs.addr \in 16384..32767
    /\ obs.pre.mapper = "MBC1" /\ ~obs.pre.failed
    /\ obs.pre.rom_current_bank >= obs.pre.rom_bank_count
    /\ cart.failed

\* an access to the RAM of a cartridge that has none, with the gate open
C36_NoRamAccessed ==
    /\ obs.op \in {"read", "write"} /\ IsCartridgeRam(obs.addr)
    /\ obs.pre.mapper = "MBC1" /\ ~obs.pre.failed
    /\ obs.pre.ram_enable /\ obs.pre.ram_bank_count = 0
    /\ cart.failed


-----------------------------------------------------------------------------
(* Interrupt requests across the Ppu::tick calls of SpecPpu                *)

\* every request of IF before the step is still in IF after it
RequestsKept == And8(io.interrupt_flag, io'.interrupt_flag) = io.interrupt_flag

\* C37: no Ppu::tick clears a bit of IF: a request raised stays in IF until
\* the CPU dispatches it or writes IF, so a VBLANK request pending at the
\* end of a frame is pending in the next frame.
C37_RequestsKept ==
    [][(obs'.op = "ppu_tick" /\ ~gb'.failed) => RequestsKept]_vars

\* the tick that ends the first frame has returned with the VBLANK request,
\* which no CPU has served, gone from IF
C37_VblankDropped ==
    /\ obs.op = "ppu_tick" /\ obs.result /\ obs.frames = 1
    /\ ~Test(io.interrupt_flag, VBLANK)

\* The requests are kept by every tick but the one that wraps the dot
\* counter, and VBLANK is pending in every tick of the first frame up to it.
C37_KeptWithinFrame ==
    [][(obs'.op = "ppu_tick" /\ ~gb'.failed) =>
          /\ RequestsKept \/ obs'.result
          /\ obs'.frames = 0 => Test(io'.interrupt_flag, VBLANK)]_vars


-----------------------------------------------------------------------------
(* The clocks across the Cpu ticks of SpecCpu                              *)

\* the step is a Cpu tick that completed and left TAC as it was
ClockTick == obs'.op = "tick" /\ ~gb'.failed /\ io'.tac = io.tac

\* the internal clock has advanced by the T-cycles of the tick, and so has
\* the TIMA accumulator of an enabled timer, up to the periods it gave to TIMA
ClocksAdvanced ==
    /\ io'.cpu_clock = Wrap16(io.cpu_clock + TCycles(obs'.m))
    /\ Test(io.tac, 2) =>
          (io'.clock_accumulator % TimerUpdateFreq(io.tac)) =
             ((io.clock_accumulator + TCycles(obs'.m)) % TimerUpdateFreq(io.tac))

\* C38: on every Cpu tick, the ticks that copy a DMA byte and the ticks that
\* dispatch an interrupt included, the internal CPU clock (the source of
\* DIV) and the TIMA accumulator advance by 4 times the machine cycles the
\* tick returns.
C38_ClockCoherence == [][ClockTick => ClocksAdvanced]_vars

\* a whole OAM DMA of 160 one-cycle ticks has run, and the clock still holds
\* the 20 T-cycles of the two instructions that started it
C38_DmaUncounted ==
    /\ obs.op = "tick" /\ obs.path = "dma" /\ obs.dma_run = 160
    /\ ~gb.failed
    /\ io.cpu_clock = 20

\* The ticks that run an instruction or idle in HALT advance the clocks;
\* the DMA and dispatch ticks leave them as they were.
C38_ClocksAsCoded ==
    [][ClockTick =>
          IF obs'.path \in {"instruction", "halted"}
          THEN ClocksAdvanced
          ELSE /\ io'.cpu_clock = io.cpu_clock
               /\ io'.clock_accumulator = io.clock_accumulator
               /\ io'.div = io.div]_vars


-----------------------------------------------------------------------------
(* SpecHalt: GameBoy::tick on a CPU that starts the timer, enables its     *)
(* interrupt and halts                                                     *)
(*   [DI ;] LD A,0 ; LDH (0x0F),A ; LD A,4 ; LDH (0xFF),A ;                *)
(*   LD A,t ; LDH (0x06),A ; LDH (0x05),A' ; LD A,tac ; LDH (0x07),A ; HALT*)
(* up to the tick that leaves HALT.  obs records the path of the last      *)
(* tick, IME and PC before it, whether TIMER was seen requested in IF      *)
(* while the CPU was halted, and whether the tick left HALT.  The front    *)
(* end calls tick again and again, so the tick is weakly fair.             *)

\* TAC and the value TMA and TIMA start from: each of the four periods, a
\* whole run of TIMA for the fastest, a start close to overflow for the rest
\* more ticks than the longest wait of the timers below takes
MaxHaltTicks == 4200

HaltTimers == {<<5, 0>>, <<5, 254>>, <<6, 0>>, <<7, 192>>, <<4, 240>>, <<4, 254>>}

HaltProgram(ime, tac, start) ==
    (IF ime THEN <<>> ELSE <<DI>>)
    \o Out(15, 0) \o Out(255, 4) \o Out(6, start) \o Out(5, start) \o Out(7, tac)
    \o <<HALT, NOP, NOP, NOP>>

InitHalt ==
    \E ime \in BOOLEAN, timer \in HaltTimers :
        /\ Holds(GameBoy_load(GameBoy_new,
                              Image(HaltProgram(ime, timer[1], timer[2]), RETI, 0, 0)))
        /\ obs = [op |-> "load", ticks |-> 0, path |-> "none", ime |-> TRUE, pc |-> 0,
                  raised |-> FALSE, woken |-> FALSE]

HaltTick ==
    /\ gb.loaded /\ ~gb.failed
    /\ ~obs.woken
    /\ obs.ticks < MaxHaltTicks
    /\ NextOpcodeModelled(Machine)
    /\ \E t \in {GameBoy_tick(Machine)} :
          /\ Becomes(t.s)
          /\ obs' = [op |-> "tick", ticks |-> obs.ticks + 1, path |-> t.path,
                     ime |-> cpu.interrupts_master_enable,
                     pc |-> cpu.registers.pc,
                     raised |-> \/ obs.raised
                                \/ t.s.cpu.halted /\ Test(t.s.io.interrupt_flag, TIMER),
                     woken |-> cpu.halted /\ ~t.s.cpu.halted]

NextHalt == HaltTick

\* what obs can hold after a tick
HaltRecords ==
    [op : {"tick"}, ticks : 1..MaxHaltTicks,
     path : {"dma", "interrupt", "instruction", "halted"},
     ime : BOOLEAN, pc : 0..65535, raised : BOOLEAN, woken : BOOLEAN]

\* a step that records a tick.  Every HaltTick step is one, every step of
\* NextHalt that changes obs is a HaltTick step, and HaltStep is enabled
\* exactly where HaltTick is, so weak fairness of HaltStep on obs is weak
\* fairness of the tick.
HaltStep ==
    /\ gb.loaded /\ ~gb.failed
    /\ ~obs.woken
    /\ obs.ticks < MaxHaltTicks
    /\ NextOpcodeModelled(Machine)
    /\ obs' \in HaltRecords

SpecHalt == InitHalt /\ [][NextHalt]_vars /\ WF_obs(HaltStep)

\* the CPU is halted with the timer running and its interrupt enabled
HaltWaiting ==
    /\ gb.loaded /\ ~gb.failed
    /\ cpu.halted
    /\ Test(io.tac, 2)
    /\ Test(io.interrupt_enable, TIMER)

\* the CPU has left HALT on a TIMER request: dispatched to 0x0050 with the
\* request taken from IF if IME was set, past the instruction after HALT
\* with the request still in IF if not
HaltLeft ==
    /\ ~gb.failed /\ obs.woken /\ ~cpu.halted
    /\ obs.raised
    /\ IF obs.ime
       THEN /\ obs.path = "interrupt"
            /\ cpu.registers.pc = 80
            /\ ~Test(io.interrupt_flag, TIMER)
       ELSE /\ obs.path = "instruction"
            /\ cpu.registers.pc = obs.pc + 1
            /\ Test(io.interrupt_flag, TIMER)

\* C39: a CPU halted with TAC bit 2 set and TIMER in IE sees, after finitely
\* many ticks, the TIMER bit of IF set, and leaves HALT: by a dispatch to
\* 0x0050 if IME is set, by resuming after the HALT if not.
C39_HaltWakeUp == HaltWaiting ~> HaltLeft

\* a halted CPU with IME set has been dispatched to the timer handler
C39_Witness ==
    /\ obs.woken /\ obs.raised /\ obs.ime
    /\ obs.path = "interrupt"
    /\ cpu.registers.pc = 80
    /\ ~cpu.halted

\* a halted CPU with IME clear has resumed after the HALT
C39_Resumed ==
    /\ obs.woken /\ obs.raised /\ ~obs.ime
    /\ obs.path = "instruction"
    /\ ~cpu.halted


-----------------------------------------------------------------------------
(* SpecAudio: the front end (main.rs).  The engine sits behind a mutex;    *)
(* the audio device starts paused, or playing when a ROM was named on the  *)
(* command line; the Open item of the menu runs under the mutex, loads the *)
(* ROM the dialog returns, if any, and resumes the device; the callback of *)
(* a playing device takes the mutex, calls GameBoy::tick until the audio   *)
(* buffer holds AUDIO_BUFFER_SIZE values, drains the buffer and releases   *)
(* the mutex.  obs records the last operation, the device status, the      *)
(* holder of the mutex, the parity of the tick calls of the callback, and  *)
(* the menu events and callbacks so far.  The audio thread keeps running,  *)
(* so the steps of a callback that holds the mutex are weakly fair.        *)

AUDIO_BUFFER_SIZE == 2048

MaxOpens == 1

MaxCallbacks == 1

\* the ROMs a dialog or the command line can name: a spin and a HALT
AudioImages == {Image(code, NOP, 0, 0) : code \in {<<JP_A16, 0, 1>>, <<HALT, NOP, NOP>>}}

InitAudio ==
    /\ \/ /\ Holds(GameBoy_new)
          /\ obs = [op |-> "start", status |-> "Paused", mutex |-> "free", parity |-> 0,
                    opens |-> 0, callbacks |-> 0]
       \/ /\ \E img \in AudioImages : Holds(GameBoy_load(GameBoy_new, img))
          /\ obs = [op |-> "start", status |-> "Playing", mutex |-> "free", parity |-> 0,
                    opens |-> 0, callbacks |-> 0]

\* handle_menu_event(MENU_OPEN) with a dialog that returned a ROM
MenuOpenLoaded(img) ==
    /\ obs.mutex = "free" /\ ~gb.failed
    /\ obs.opens < MaxOpens
    /\ Becomes(GameBoy_load(Machine, img))
    /\ obs' = [obs EXCEPT !.op = "open", !.status = "Playing", !.opens = @ + 1]

\* handle_menu_event(MENU_OPEN) with a dialog that was cancelled
MenuOpenCancelled ==
    /\ obs.mutex = "free" /\ ~gb.failed
    /\ obs.opens < MaxOpens
    /\ obs' = [obs EXCEPT !.op = "cancel", !.status = "Playing", !.opens = @ + 1]
    /\ UNCHANGED <<cpu, io, bus, ppu, apu, gb, cart>>

\* Callback::callback: self.gameboy.lock()
CallbackLock ==
    /\ obs.status = "Playing" /\ obs.mutex = "free" /\ ~gb.failed
    /\ obs.callbacks < MaxCallbacks
    /\ obs' = [obs EXCEPT !.op = "lock", !.mutex = "callback", !.parity = 0]
    /\ UNCHANGED <<cpu, io, bus, ppu, apu, gb, cart>>

\* one turn of `while gameboy.audio_buffer_size() < AUDIO_BUFFER_SIZE`
CallbackTick ==
    /\ obs.mutex = "callback" /\ ~gb.failed
    /\ apu.buffer_len < AUDIO_BUFFER_SIZE
    /\ gb.loaded => NextOpcodeModelled(Machine)
    /\ \E t \in {GameBoy_tick(Machine)} :
          /\ Becomes(t.s)
          /\ obs' = [obs EXCEPT !.op = "callback_tick", !.parity = 1 - @]

\* buffer.copy_from_slice(gameboy.extract_audio_buffer()) and the release of
\* the mutex at the end of the callback
CallbackReturn ==
    /\ obs.mutex = "callback" /\ ~gb.failed
    /\ apu.buffer_len >= AUDIO_BUFFER_SIZE
    /\ apu' = [apu EXCEPT !.buffer_len = 0]
    /\ obs' = [obs EXCEPT !.op = "return", !.mutex = "free", !.callbacks = @ + 1]
    /\ UNCHANGED <<cpu, io, bus, ppu, gb, cart>>

NextAudio ==
    \/ \E img \in AudioImages : MenuOpenLoaded(img)
    \/ MenuOpenCancelled
    \/ CallbackLock
    \/ CallbackTick
    \/ CallbackReturn

\* what obs can hold after a step of the callback
AudioRecords ==
    [op : {"callback_tick", "return"}, status : {"Playing"}, mutex : {"free", "callback"},
     parity : {0, 1}, opens : 0..MaxOpens, callbacks : 0..(MaxCallbacks + 1)]

\* a step of a callback that holds the mutex: a turn of its loop or its
\* return.  Each of these changes obs, no other step of NextAudio is taken
\* with the mutex held, and one of them is enabled wherever the callback
\* holds the mutex.
CallbackStep ==
    /\ obs.mutex = "callback" /\ ~gb.failed
    /\ gb.loaded => NextOpcodeModelled(Machine)
    /\ obs' \in AudioRecords

SpecAudio == InitAudio /\ [][NextAudio]_vars /\ WF_obs(CallbackStep)

\* C40: an audio callback that holds the mutex returns and releases it,
\* after finitely many calls of tick, in every state the front end can
\* reach.
C40_CallbackReturns == (obs.mutex = "callback") ~> (obs.mutex = "free")

\* the callback holds the mutex and calls tick on an engine with no
\* cartridge loaded, after an Open whose dialog was cancelled
C40_SpinningUnloaded ==
    /\ obs.op = "callback_tick" /\ obs.mutex = "callback"
    /\ obs.opens = 1 /\ ~gb.loaded
    /\ apu.buffer_len = 0

\* The callback of a loaded engine returns with the buffer drained.
C40_LoadedReturns == (obs.mutex = "callback" /\ gb.loaded) ~> (obs.op = "return")

\* The buffer of an engine that is not loaded never grows.
C40_UnloadedSilent == ~gb.loaded => apu.buffer_len = 0

=============================================================================
